---- MODULE Spec2Model ----
(***************************************************************************)
(* Model of the renamer engine of automation-tools: natural sort key, file *)
(* scanner, index assignment, selection filter, name builder, destination  *)
(* resolver, ensure_write and the RenamerWorker.run pipeline.               *)
(*                                                                         *)
(* File names are sequences of one-character strings, paths are records    *)
(* [root, parts] (root "S" is the scan root `folder`, root "D" a separate  *)
(* destination root), the filesystem is a function from the existing       *)
(* paths to nodes [kind, data].                                            *)
(***************************************************************************)
EXTENDS Integers, Sequences, FiniteSets, TLC

(***************************************************************************)
(* Bounds of the model.                                                    *)
(***************************************************************************)
\* largest number of regular files in an initial directory layout
MaxFiles == 3
\* largest number of files in a layout of the scan-and-pairing behaviours
MaxScan == 4
\* number of runs in a behaviour that repeats a run with the same parameters
MaxRuns == 2
\* largest sel_offset and sel_division of the selection behaviours
MaxSelOffset == 2
MaxSelDivision == 3
\* largest number of tool windows opened from the home screen
MaxWindows == 3
\* largest number of unhandled worker threads of one window
MaxWorkers == 2
\* largest count of a create_folders call
MaxCount == 2
\* largest index of the calls that name two entries
MaxIndex == 4

(***************************************************************************)
(* Characters and strings (Python str).                                    *)
(***************************************************************************)
\* the characters the pattern \d matches and int() reads
DigitChars == {"0", "1", "2", "3", "4", "5", "6", "7", "8", "9"}

\* the characters str.isdigit() accepts: the decimal digits and the other
\* digit characters, such as the superscript two
IsDigitChars == DigitChars \cup {"²"}

\* code point of a character (ord)
Ord(c) ==
  CASE c = " " -> 32 [] c = "*" -> 42 [] c = "-" -> 45 [] c = "." -> 46
    [] c = "/" -> 47 [] c = ":" -> 58 [] c = "x" -> 120 [] c = "²" -> 178
    [] c = "0" -> 48 [] c = "1" -> 49 [] c = "2" -> 50 [] c = "3" -> 51
    [] c = "4" -> 52 [] c = "5" -> 53 [] c = "6" -> 54 [] c = "7" -> 55
    [] c = "8" -> 56 [] c = "9" -> 57
    [] c = "A" -> 65 [] c = "B" -> 66 [] c = "F" -> 70 [] c = "T" -> 84
    [] c = "_" -> 95
    [] c = "a" -> 97 [] c = "b" -> 98 [] c = "f" -> 102 [] c = "t" -> 116

\* str.lower() of one character
LowerChar(c) ==
  CASE c = "A" -> "a" [] c = "B" -> "b" [] c = "F" -> "f" [] c = "T" -> "t"
    [] OTHER -> c

RECURSIVE Lower(_)
\* str.lower()
Lower(s) == IF Len(s) = 0 THEN << >> ELSE << LowerChar(s[1]) >> \o Lower(Tail(s))

\* str.isdigit(): non-empty and every character a digit
IsDigitStr(s) == Len(s) > 0 /\ \A i \in 1..Len(s) : s[i] \in IsDigitChars

\* int(s) raises ValueError: s is not a string of decimal digits
IntRaises(s) == Len(s) = 0 \/ \E i \in 1..Len(s) : s[i] \notin DigitChars

DigitVal(c) == Ord(c) - 48

RECURSIVE IntOf(_)
\* int(t) of a digit string
IntOf(s) ==
  IF Len(s) = 0 THEN 0
  ELSE 10 * IntOf(SubSeq(s, 1, Len(s) - 1)) + DigitVal(s[Len(s)])

RECURSIVE StrCmp(_, _)
\* comparison of two Python strings: -1, 0, 1 (code point order)
StrCmp(s, t) ==
  IF Len(s) = 0 THEN (IF Len(t) = 0 THEN 0 ELSE -1)
  ELSE IF Len(t) = 0 THEN 1
  ELSE IF Ord(s[1]) < Ord(t[1]) THEN -1
  ELSE IF Ord(s[1]) > Ord(t[1]) THEN 1
  ELSE StrCmp(Tail(s), Tail(t))

(***************************************************************************)
(* natural_sort_key (tools/common/path_utils.py).                          *)
(***************************************************************************)
RECURSIVE DigitRunLen(_)
\* length of the maximal run of digits at the head of s
DigitRunLen(s) ==
  IF Len(s) > 0 /\ s[1] \in DigitChars THEN 1 + DigitRunLen(Tail(s)) ELSE 0

RECURSIVE TextRunLen(_)
\* length of the maximal run of non-digits at the head of s
TextRunLen(s) ==
  IF Len(s) > 0 /\ s[1] \notin DigitChars THEN 1 + TextRunLen(Tail(s)) ELSE 0

RECURSIVE ReSplitDigits(_)
\* re.split(r"(\d+)", name): text, digits, text, ..., text (texts may be empty)
ReSplitDigits(s) ==
  LET n == TextRunLen(s)
      rest == SubSeq(s, n + 1, Len(s))
      d == DigitRunLen(rest)
  IN IF Len(rest) = 0 THEN << SubSeq(s, 1, n) >>
     ELSE << SubSeq(s, 1, n), SubSeq(rest, 1, d) >>
          \o ReSplitDigits(SubSeq(rest, d + 1, Len(rest)))

\* a variant of KeyToken that keeps every token as text
KeyTokenText(t) == [isInt |-> FALSE, n |-> 0, s |-> Lower(t), bad |-> FALSE]

\* one token of the key: int(t) if t.isdigit() else t.lower(); bad when
\* int(t) raises ValueError
KeyToken(t) ==
  IF IsDigitStr(t)
  THEN IF IntRaises(t) THEN [isInt |-> TRUE, n |-> 0, s |-> << >>, bad |-> TRUE]
       ELSE [isInt |-> TRUE, n |-> IntOf(t), s |-> << >>, bad |-> FALSE]
  ELSE [isInt |-> FALSE, n |-> 0, s |-> Lower(t), bad |-> FALSE]

RECURSIVE KeyTokens(_)
\* the loop over the tokens: key.append(...)
KeyTokens(tok) ==
  IF Len(tok) = 0 THEN << >> ELSE << KeyToken(tok[1]) >> \o KeyTokens(Tail(tok))

natural_sort_key(name) == KeyTokens(ReSplitDigits(name))

\* natural_sort_key(name) raises ValueError
KeyRaises(name) ==
  LET k == natural_sort_key(name) IN \E i \in 1..Len(k) : k[i].bad

RECURSIVE KeyCmp(_, _)
\* comparison of two keys as Python compares lists: -1, 0, 1, or 2 when an
\* int token meets a str token (TypeError)
KeyCmp(k1, k2) ==
  IF Len(k1) = 0 THEN (IF Len(k2) = 0 THEN 0 ELSE -1)
  ELSE IF Len(k2) = 0 THEN 1
  ELSE LET a == k1[1]
           b == k2[1]
           c == IF a.isInt # b.isInt THEN 2
                ELSE IF a.isInt
                     THEN (IF a.n < b.n THEN -1 ELSE IF a.n > b.n THEN 1 ELSE 0)
                     ELSE StrCmp(a.s, b.s)
       IN IF c # 0 THEN c ELSE KeyCmp(Tail(k1), Tail(k2))

(***************************************************************************)
(* Paths (pathlib.Path) and the filesystem.                                *)
(***************************************************************************)
Path(r, ps) == [root |-> r, parts |-> ps]

\* the scan root (RenamerWorker.folder)
Folder == Path("S", << >>)
\* a destination root outside the scan root
DestDir == Path("D", << >>)
\* dest_root = None
NoPath == Path("-", << >>)

PathName(p) == p.parts[Len(p.parts)]
Parent(p) == Path(p.root, SubSeq(p.parts, 1, Len(p.parts) - 1))
Child(p, name) == Path(p.root, Append(p.parts, name))
\* Path.with_name
WithName(p, name) == Child(Parent(p), name)
\* the proper ancestors of p and p itself, root directory included
Ancestors(p) == { Path(p.root, SubSeq(p.parts, 1, n)) : n \in 0..Len(p.parts) }
IsUnder(p, d) ==
  /\ p.root = d.root
  /\ Len(p.parts) > Len(d.parts)
  /\ SubSeq(p.parts, 1, Len(d.parts)) = d.parts
\* p.relative_to(d), for p under d or equal to d
RelativeTo(p, d) == SubSeq(p.parts, Len(d.parts) + 1, Len(p.parts))

RECURSIVE JoinParts(_)
JoinParts(ps) ==
  IF Len(ps) = 0 THEN << >>
  ELSE IF Len(ps) = 1 THEN ps[1]
  ELSE ps[1] \o << "/" >> \o JoinParts(Tail(ps))

\* str(rel_parent) of a relative path: "." for the empty path
RelStr(ps) == IF Len(ps) = 0 THEN << "." >> ELSE JoinParts(ps)

FileNode(d) == [kind |-> "file", data |-> d]
DirNode == [kind |-> "dir", data |-> ""]

Exists(f, p) == p \in DOMAIN f
IsFile(f, p) == p \in DOMAIN f /\ f[p].kind = "file"
IsDir(f, p) == p \in DOMAIN f /\ f[p].kind = "dir"

\* the filesystem f without path p
Unlink(f, p) == [q \in (DOMAIN f) \ {p} |-> f[q]]
\* the filesystem f with node n at path p
Put(f, p, n) == [q \in (DOMAIN f) \cup {p} |-> IF q = p THEN n ELSE f[q]]

\* str.rfind(".") on a name, 0 when there is no dot (positions from 1)
LastDot(name) ==
  LET ds == { i \in 1..Len(name) : name[i] = "." }
  IN IF ds = {} THEN 0 ELSE CHOOSE i \in ds : \A j \in ds : j <= i

\* Path.suffix: the last dot and what follows, unless the dot is first or last
Suffix(name) ==
  LET i == LastDot(name)
  IN IF 1 < i /\ i < Len(name) THEN SubSeq(name, i, Len(name)) ELSE << >>

\* Path.stem
Stem(name) == SubSeq(name, 1, Len(name) - Len(Suffix(name)))

(***************************************************************************)
(* list_files (tools/common/file_utils.py).                                *)
(***************************************************************************)
RECURSIVE GlobMatch(_, _)
\* fnmatch of a name against a pattern whose only wildcard is "*"
GlobMatch(pat, s) ==
  IF Len(pat) = 0 THEN Len(s) = 0
  ELSE IF pat[1] = "*"
       THEN GlobMatch(Tail(pat), s) \/ (Len(s) > 0 /\ GlobMatch(pat, Tail(s)))
       ELSE Len(s) > 0 /\ pat[1] = s[1] /\ GlobMatch(Tail(pat), Tail(s))

\* the set out of which folder.rglob(pattern) yields, filtered by is_file()
GlobFiles(f, folder, pattern) ==
  { p \in DOMAIN f : IsUnder(p, folder) /\ IsFile(f, p)
                     /\ GlobMatch(pattern, PathName(p)) }

\* a path with its sort key, as sorted() pairs them: the key function is
\* called once per element
Keyed(p) == [k |-> natural_sort_key(PathName(p)), v |-> p]

RECURSIVE KeyedSeq(_)
KeyedSeq(seq) ==
  IF Len(seq) = 0 THEN << >> ELSE << Keyed(seq[1]) >> \o KeyedSeq(Tail(seq))

RECURSIVE Values(_)
Values(ks) == IF Len(ks) = 0 THEN << >> ELSE << ks[1].v >> \o Values(Tail(ks))

RECURSIVE InsertByKey(_, _)
\* x placed before the first element whose key is greater (stable)
InsertByKey(x, lst) ==
  IF Len(lst) = 0 THEN << x >>
  ELSE IF KeyCmp(x.k, lst[1].k) = -1 THEN << x >> \o lst
  ELSE << lst[1] >> \o InsertByKey(x, Tail(lst))

RECURSIVE SortKeyed(_)
SortKeyed(ks) ==
  IF Len(ks) = 0 THEN << >>
  ELSE InsertByKey(ks[Len(ks)], SortKeyed(SubSeq(ks, 1, Len(ks) - 1)))

\* sorted(paths, key=natural_sort_key)
SortByKey(seq) == Values(SortKeyed(KeyedSeq(seq)))

\* sorting raises TypeError when an int token is compared with a str token
SortRaises(seq) ==
  LET ks == KeyedSeq(seq)
  IN \E i, j \in 1..Len(ks) : KeyCmp(ks[i].k, ks[j].k) = 2

RECURSIVE DescOrders(_)
\* the arrangements of the keyed paths K in which the key never increases
DescOrders(K) ==
  IF K = {} THEN { << >> }
  ELSE LET top == { x \in K : \A y \in K : KeyCmp(y.k, x.k) \in {-1, 0} }
           first == IF top = {} THEN K ELSE top
       IN UNION { { << x.v >> \o t : t \in DescOrders(K \ {x}) } : x \in first }

\* the orders in which the directory traversal (rglob) yields the files S, up
\* to what a stable sort tells apart: files with equal keys in every order,
\* files with different keys from the greatest key down
TraversalOrders(S) == DescOrders({ Keyed(p) : p \in S })

\* a variant of list_files that returns the files as the traversal yields them
list_files_unsorted(order) == order

\* list_files(folder, pattern, recursive=True), the traversal yielding the
\* matching files in the order `order`
list_files(order) == SortByKey(order)

(***************************************************************************)
(* Index assignment and selection filter (RenamerWorker.run).              *)
(***************************************************************************)
\* key = str(p.parent.relative_to(self.folder))
GroupKey(p) == RelStr(RelativeTo(Parent(p), Folder))

RECURSIVE GroupKeys(_)
\* the keys of the dict `groups`, in insertion order
GroupKeys(paths) ==
  IF Len(paths) = 0 THEN << >>
  ELSE LET front == GroupKeys(SubSeq(paths, 1, Len(paths) - 1))
           k == GroupKey(paths[Len(paths)])
       IN IF \E i \in 1..Len(front) : front[i] = k THEN front
          ELSE Append(front, k)

RECURSIVE InsertByCase(_, _)
InsertByCase(x, lst) ==
  IF Len(lst) = 0 THEN << x >>
  ELSE IF StrCmp(x, lst[1]) = -1 THEN << x >> \o lst
  ELSE << lst[1] >> \o InsertByCase(x, Tail(lst))

RECURSIVE SortByCase(_)
\* a variant of SortByLower that compares the keys as they are: sorted(keys)
SortByCase(seq) ==
  IF Len(seq) = 0 THEN << >>
  ELSE InsertByCase(seq[Len(seq)], SortByCase(SubSeq(seq, 1, Len(seq) - 1)))

RECURSIVE InsertByLower(_, _)
InsertByLower(x, lst) ==
  IF Len(lst) = 0 THEN << x >>
  ELSE IF StrCmp(Lower(x), Lower(lst[1])) = -1 THEN << x >> \o lst
  ELSE << lst[1] >> \o InsertByLower(x, Tail(lst))

RECURSIVE SortByLower(_)
\* sorted(groups.keys(), key=lambda s: s.lower())
SortByLower(seq) ==
  IF Len(seq) = 0 THEN << >>
  ELSE InsertByLower(seq[Len(seq)], SortByLower(SubSeq(seq, 1, Len(seq) - 1)))

\* groups[key]: the paths of one group, in the order of `paths`
GroupOf(paths, k) == SelectSeq(paths, LAMBDA p : GroupKey(p) = k)

RECURSIVE EnumerateFrom(_, _)
EnumerateFrom(paths, i) ==
  IF Len(paths) = 0 THEN << >>
  ELSE << << paths[1], i >> >> \o EnumerateFrom(Tail(paths), i + 1)

\* [(p, idx + base) for idx, p in enumerate(paths)]
Enumerate(paths, base) == EnumerateFrom(paths, 0 + base)

RECURSIVE ConcatGroups(_, _, _)
ConcatGroups(keys, paths, base) ==
  IF Len(keys) = 0 THEN << >>
  ELSE Enumerate(SortByKey(GroupOf(paths, keys[1])), base)
       \o ConcatGroups(Tail(keys), paths, base)

\* pipeline.py 98-116
AssignPairs(paths, index_base, reset_per_folder) ==
  IF ~reset_per_folder THEN Enumerate(paths, index_base)
  ELSE ConcatGroups(SortByLower(GroupKeys(paths)), paths, index_base)

\* Python a % b for b > 0: the remainder of floor division
PyMod(a, b) == a - b * (a \div b)

\* a variant of SelectPairs that tests i % sel_division == sel_offset
SelectPairsModEq(prs, apply_selection, sel_offset, sel_division) ==
  IF apply_selection /\ sel_division # 0 /\ sel_division > 0
  THEN SelectSeq(prs, LAMBDA pr : PyMod(pr[2], sel_division) = sel_offset)
  ELSE prs

\* pipeline.py 119-121
SelectPairs(prs, apply_selection, sel_offset, sel_division) ==
  IF apply_selection /\ sel_division # 0 /\ sel_division > 0
  THEN SelectSeq(prs, LAMBDA pr : PyMod(pr[2] - sel_offset, sel_division) = 0)
  ELSE prs

(***************************************************************************)
(* Name builder (tools/renamer/functions.py).                              *)
(***************************************************************************)
WhiteChars == {" "}

RECURSIVE LStrip(_)
LStrip(s) == IF Len(s) > 0 /\ s[1] \in WhiteChars THEN LStrip(Tail(s)) ELSE s

RECURSIVE RStrip(_)
RStrip(s) ==
  IF Len(s) > 0 /\ s[Len(s)] \in WhiteChars
  THEN RStrip(SubSeq(s, 1, Len(s) - 1)) ELSE s

\* str.strip()
Strip(s) == RStrip(LStrip(s))

DigitChar(d) ==
  CASE d = 0 -> "0" [] d = 1 -> "1" [] d = 2 -> "2" [] d = 3 -> "3"
    [] d = 4 -> "4" [] d = 5 -> "5" [] d = 6 -> "6" [] d = 7 -> "7"
    [] d = 8 -> "8" [] d = 9 -> "9"

RECURSIVE DecDigits(_)
\* the decimal digits of n >= 0
DecDigits(n) ==
  IF n < 10 THEN << DigitChar(n) >>
  ELSE Append(DecDigits(n \div 10), DigitChar(n % 10))

RECURSIVE Zeros(_)
Zeros(k) == IF k <= 0 THEN << >> ELSE << "0" >> \o Zeros(k - 1)

\* a variant of FormatInt that pads the digits alone to pad_width
FormatIntDigits(computed, pad_width) ==
  LET ds == DecDigits(IF computed < 0 THEN -computed ELSE computed)
  IN (IF computed < 0 THEN << "-" >> ELSE << >>)
     \o Zeros(pad_width - Len(ds)) \o ds

\* a variant of FormatInt that renders the magnitude without the sign
FormatIntUnsigned(computed, pad_width) ==
  LET ds == DecDigits(IF computed < 0 THEN -computed ELSE computed)
      fill == pad_width - Len(ds)
  IN Zeros(IF fill > 0 THEN fill ELSE 0) \o ds

\* f"{computed:0{pad_width}d}"; pad_width 0 gives f"{computed}": the sign,
\* then zeros filling the whole field to pad_width, then the digits
FormatInt(computed, pad_width) ==
  LET ds == DecDigits(IF computed < 0 THEN -computed ELSE computed)
      sign == IF computed < 0 THEN << "-" >> ELSE << >>
      fill == pad_width - Len(sign) - Len(ds)
  IN sign \o Zeros(IF fill > 0 THEN fill ELSE 0) \o ds

\* a variant of RoundHalfEven in which ties go up
RoundHalfUp(twice) == (twice + 1) \div 2

\* int(round(x)) of the float x = twice / 2: ties go to the even integer
RoundHalfEven(twice) ==
  LET q == twice \div 2
  IN IF twice % 2 = 0 THEN q ELSE IF q % 2 = 0 THEN q ELSE q + 1

\* base + sep + post, the postfix rule shared by both builders
AddPostfix(base, postfix) ==
  LET post == Strip(postfix)
  IN IF Len(post) > 0
     THEN base \o (IF post[1] \in {"_", "-"} THEN << >> ELSE << "_" >>) \o post
     ELSE base

\* a variant of AddPrefix that always puts the separator
AddPrefixAlwaysSep(prefix, core) ==
  LET px == Strip(prefix)
  IN IF Len(px) > 0 THEN px \o << "_" >> \o core ELSE core

\* px + sep + core, the prefix rule shared by both builders
AddPrefix(prefix, core) ==
  LET px == Strip(prefix)
  IN IF Len(px) > 0
     THEN px \o (IF px[Len(px)] \in {"_", "-"} THEN << >> ELSE << "_" >>) \o core
     ELSE core

\* build_new_name; index_mul is the multiplier counted in halves
\* (index_mul = 2 is the float 1.0)
build_new_name(index_value, suffix, pad_width, index_mul, index_offset, prefix, postfix) ==
  LET computed == RoundHalfEven(index_value * index_mul + 2 * index_offset)
      pw == IF pad_width < 0 THEN 0 ELSE pad_width
      num_str == FormatInt(computed, pw)
  IN AddPostfix(AddPrefix(prefix, num_str), postfix) \o suffix

\* build_keep_name
build_keep_name(original_stem, suffix, prefix, postfix) ==
  AddPostfix(AddPrefix(prefix, original_stem), postfix) \o suffix

\* functions.py 7-8
INVALID_FILENAME_CHARS == {"\\", "/", ":", "*", "?", "\"", "<", ">", "|"}
MAX_FILENAME_LEN == 255

\* part.strip() is empty
IsBlank(part) == Len(Strip(part)) = 0

RECURSIVE JoinUnderscore(_)
\* "_".join(parts)
JoinUnderscore(ps) ==
  IF Len(ps) = 0 THEN << >>
  ELSE IF Len(ps) = 1 THEN ps[1]
  ELSE ps[1] \o << "_" >> \o JoinUnderscore(Tail(ps))

\* build_parent_folder_prefix; rel_parent is the sequence rel_parent.parts
build_parent_folder_prefix(rel_parent) ==
  IF Strip(RelStr(rel_parent)) \in { << >>, << "." >> } THEN << >>
  ELSE JoinUnderscore(SelectSeq(rel_parent, LAMBDA part : ~IsBlank(part)))

\* the first part the loop of validate_parent_folder_prefix rejects, 0 if none
FirstBadPart(rel_parent) ==
  LET bad == { i \in 1..Len(rel_parent) :
                 \/ \E j \in 1..Len(rel_parent[i]) :
                      rel_parent[i][j] \in INVALID_FILENAME_CHARS
                 \/ IsBlank(rel_parent[i]) }
  IN IF bad = {} THEN 0 ELSE CHOOSE i \in bad : \A k \in bad : i <= k

\* validate_parent_folder_prefix: (ok, reason)
validate_parent_folder_prefix(rel_parent, new_name) ==
  LET prefix == build_parent_folder_prefix(rel_parent)
      i == FirstBadPart(rel_parent)
      full_name == prefix \o << "_" >> \o new_name
  IN IF Len(prefix) = 0
     THEN IF Len(new_name) > MAX_FILENAME_LEN
          THEN [ok |-> FALSE, reason |-> "name too long"]
          ELSE [ok |-> TRUE, reason |-> ""]
     ELSE IF i > 0
     THEN IF \E j \in 1..Len(rel_parent[i]) :
               rel_parent[i][j] \in INVALID_FILENAME_CHARS
          THEN [ok |-> FALSE, reason |-> "invalid character"]
          ELSE [ok |-> FALSE, reason |-> "empty folder name"]
     ELSE IF Len(full_name) > MAX_FILENAME_LEN
     THEN [ok |-> FALSE, reason |-> "prefixed name too long"]
     ELSE [ok |-> TRUE, reason |-> ""]

(***************************************************************************)
(* ensure_write (tools/common/file_utils.py) and the library calls it      *)
(* makes. `inj` names the filesystem operation the environment makes fail  *)
(* (PermissionError, disk full, ...), "none" for no failure.  src is a     *)
(* regular file or a path that does not exist.                             *)
(***************************************************************************)
Injections == {"none", "unlink", "mkdir", "transfer"}

\* dst.parent.mkdir(parents=True, exist_ok=True)
Mkdir(f, d) ==
  LET anc == Ancestors(d)
      blocked == \E a \in anc : IsFile(f, a)
  IN [raised |-> blocked,
      msg |-> IF blocked THEN "FileExistsError" ELSE "",
      fs |-> IF blocked THEN f
             ELSE [q \in (DOMAIN f) \cup anc |->
                     IF q \in DOMAIN f THEN f[q] ELSE DirNode]]

\* the path shutil.move and shutil.copy2 write to: inside dst when dst is a
\* directory
RealDst(f, src, dst) == IF IsDir(f, dst) THEN Child(dst, PathName(src)) ELSE dst

\* shutil.move(str(src), str(dst))
ShMove(f, src, dst) ==
  LET real_dst == RealDst(f, src, dst)
  IN IF IsDir(f, dst) /\ Exists(f, real_dst)
     THEN [raised |-> TRUE, msg |-> "Error: destination path already exists", fs |-> f]
     ELSE IF ~Exists(f, src)
     THEN [raised |-> TRUE, msg |-> "FileNotFoundError", fs |-> f]
     ELSE IF real_dst = src
     THEN [raised |-> FALSE, msg |-> "", fs |-> f]
     ELSE [raised |-> FALSE, msg |-> "", fs |-> Put(Unlink(f, src), real_dst, f[src])]

\* shutil.copy2(src, dst)
ShCopy2(f, src, dst) ==
  LET real_dst == RealDst(f, src, dst)
  IN IF Exists(f, src) /\ real_dst = src
     THEN [raised |-> TRUE, msg |-> "SameFileError", fs |-> f]
     ELSE IF ~Exists(f, src)
     THEN [raised |-> TRUE, msg |-> "FileNotFoundError", fs |-> f]
     ELSE IF IsDir(f, real_dst)
     THEN [raised |-> TRUE, msg |-> "IsADirectoryError", fs |-> f]
     ELSE [raised |-> FALSE, msg |-> "", fs |-> Put(f, real_dst, f[src])]

\* the result of a call that raised / returned, leaving the filesystem g
Raise(g, m, o) == [raised |-> TRUE, msg |-> m, fs |-> g, out |-> o]
Return(g, o) == [raised |-> FALSE, msg |-> "", fs |-> g, out |-> o]

\* a variant of Skips that never returns early
SkipsNever(existed, overwrite) == FALSE

\* file_utils.py 56-57, 62-65: dst exists and overwrite is off: return
Skips(existed, overwrite) == existed /\ ~overwrite

\* a variant of Unlinks that removes dst in a dry run too
UnlinksInDryRun(existed, is_file, overwrite, dry_run) ==
  existed /\ overwrite /\ is_file

\* file_utils.py 56-61: dst.unlink() is called
Unlinks(existed, is_file, overwrite, dry_run) ==
  existed /\ overwrite /\ ~dry_run /\ is_file

ensure_write(f, src, dst, move, overwrite, dry_run, verbose, inj) ==
  LET existed == Exists(f, dst)
      doUnlink == Unlinks(existed, IsFile(f, dst), overwrite, dry_run)
      f1 == IF doUnlink THEN Unlink(f, dst) ELSE f
      out1 == IF verbose /\ existed
              THEN << IF overwrite THEN "overwrite" ELSE "skip" >> ELSE << >>
      out2 == IF verbose
              THEN Append(out1, IF move THEN "move" ELSE "copy") ELSE out1
      md == Mkdir(f1, Parent(dst))
      tr == IF move THEN ShMove(md.fs, src, dst) ELSE ShCopy2(md.fs, src, dst)
  IN IF Skips(existed, overwrite) THEN Return(f, out1)
     ELSE IF doUnlink /\ inj = "unlink" THEN Raise(f, "PermissionError", out1)
     ELSE IF dry_run THEN Return(f1, out2)
     ELSE IF inj = "mkdir" /\ md.fs # f1 THEN Raise(f1, "PermissionError", out2)
     ELSE IF md.raised THEN Raise(f1, md.msg, out2)
     ELSE IF inj = "transfer" THEN Raise(md.fs, "OSError", out2)
     ELSE IF tr.raised THEN Raise(tr.fs, tr.msg, out2)
     ELSE Return(tr.fs, out2)

(***************************************************************************)
(* State.                                                                  *)
(***************************************************************************)
VARIABLES
  fs,           \* the filesystem: existing path -> node
  pc,           \* position of the worker: "idle", "writing", "done"
  params,       \* the fields of the RenamerWorker (set by __init__)
  paths,        \* run(): result of list_files
  allPairs,     \* run(): `pairs` before the selection filter
  pairs,        \* run(): `pairs` after the selection filter
  pos,          \* run(): position of the for loop in `pairs` (from 1)
  count_ok,     \* run(): count_ok
  count_total,  \* run(): count_total
  buf,          \* run(): lines printed into the redirected stdout
  events,       \* signals emitted by the current run, in order
  shown,        \* texts emitted through the progressed signal
  fs0,          \* the filesystem when the current run started
  runs,         \* number of runs started
  prevEnd,      \* terminal signal of the previous run ("" if none)
  prevPaths,    \* the scan result of the previous run
  call,         \* a call of one of the pure functions: inputs and result
  outcomes,     \* per ensure_write call of the current run: what it did
  last,         \* the last ensure_write call: arguments, filesystem before
  open_windows  \* MainWindow._open_windows: the tool windows opened so far

vars == << fs, pc, params, paths, allPairs, pairs, pos, count_ok, count_total,
           buf, events, shown, fs0, runs, prevEnd, prevPaths, outcomes, last,
           call, open_windows >>

(***************************************************************************)
(* Names and directory layouts the behaviours start from.                  *)
(***************************************************************************)
Ext == << ".", "t" >>
N1 == << "1" >> \o Ext
N2 == << "2" >> \o Ext
N3 == << "3" >> \o Ext
SubA == << "a" >>
SubB == << "B" >>
Star == << "*" >>

\* regular files a layout can contain: path and content
CandidateFiles ==
  { << Path("S", << N1 >>), "c1" >>,
    << Path("S", << N2 >>), "c2" >>,
    << Path("S", << SubA, N1 >>), "c3" >>,
    << Path("D", << N1 >>), "c4" >> }

\* a directory with the name a renamed file can get
CandidateDirs == { Path("S", << N3 >>) }

\* the filesystem holding the files F and the directories Ds (and the scan
\* root, and every directory above a file)
Layout(F, Ds) ==
  LET dirs == UNION { Ancestors(Parent(x[1])) : x \in F }
              \cup UNION { Ancestors(d) : d \in Ds } \cup { Folder }
      files == { x[1] : x \in F }
  IN [q \in dirs \cup files |->
        IF q \in files THEN FileNode((CHOOSE x \in F : x[1] = q)[2])
        ELSE DirNode]

Layouts ==
  { Layout(F, Ds) : F \in { G \in SUBSET CandidateFiles : Cardinality(G) <= MaxFiles },
                    Ds \in SUBSET CandidateDirs }

\* layouts in which the scan root does not exist, or is a regular file
BadFolderLayouts ==
  { [q \in { DestDir } |-> DirNode], [q \in { Folder } |-> FileNode("c0")] }

\* files of the scan-and-pairing behaviours: names that differ in letter
\* case and in the value of a digit run, in the root and two subfolders
ScanCandidates ==
  { << Path("S", << << "f", "2" >> \o Ext >>), "p1" >>,
    << Path("S", << << "f", "1", "0" >> \o Ext >>), "p2" >>,
    << Path("S", << SubA, << "f", "2" >> \o Ext >>), "p3" >>,
    << Path("S", << SubA, << "F", "1" >> \o Ext >>), "p4" >>,
    << Path("S", << SubB, << "f", "2" >> \o Ext >>), "p5" >>,
    << Path("S", << SubB, << "f", "1", "0" >> \o Ext >>), "p6" >> }

ScanLayouts ==
  { Layout(F, {}) : F \in { G \in SUBSET ScanCandidates : Cardinality(G) <= MaxScan } }

\* files of the destination behaviours: in the scan root, one and two
\* directories below it
TreeCandidates ==
  { << Path("S", << N1 >>), "t1" >>,
    << Path("S", << SubA, N1 >>), "t2" >>,
    << Path("S", << SubA, SubB, N2 >>), "t3" >> }

TreeLayouts == { Layout(F, {}) : F \in (SUBSET TreeCandidates) \ { {} } }

\* files of the selection behaviours: 1.t .. 6.t in the scan root
SelNames == << "1", "2", "3", "4", "5", "6" >>

SelLayouts ==
  { Layout({ << Path("S", << << SelNames[i] >> \o Ext >>), SelNames[i] >> : i \in 1..k }, {})
      : k \in 1..Len(SelNames) }

NoCall ==
  [called |-> FALSE, src |-> NoPath, dst |-> NoPath, move |-> FALSE,
   overwrite |-> FALSE, dry_run |-> FALSE, inj |-> "none", before |-> << >>,
   raised |-> FALSE, msg |-> ""]

(***************************************************************************)
(* Parameters of a run (RenamerWorker.__init__).                           *)
(***************************************************************************)
NamingRule(method, base, pad, off, px) ==
  [rename_method |-> method, index_base |-> base, pad_width |-> pad,
   index_mul |-> 2, index_offset |-> off, prefix |-> px, postfix |-> << >>]

NamingRules ==
  { NamingRule("build_new_name", 1, 0, 0, << >>),
    NamingRule("build_new_name", 1, 0, 1, << >>),
    NamingRule("build_new_name", 1, 2, 0, << "f" >>),
    NamingRule("build_keep_name", 1, 0, 0, << >>) }

Selection(apply, off, div) ==
  [apply_selection |-> apply, sel_offset |-> off, sel_division |-> div]

NoSelection == Selection(FALSE, 0, 0)

Destinations ==
  { [preserve_tree |-> FALSE, dest_root |-> NoPath],
    [preserve_tree |-> TRUE, dest_root |-> DestDir],
    [preserve_tree |-> FALSE, dest_root |-> DestDir] }

\* selection, per-folder reset and verbose logging are switched on one at a
\* time
Options ==
  { [sel |-> NoSelection, reset |-> FALSE, verbose |-> FALSE],
    [sel |-> Selection(TRUE, 1, 2), reset |-> FALSE, verbose |-> TRUE],
    [sel |-> NoSelection, reset |-> TRUE, verbose |-> TRUE] }

MakeParams(nr, sl, ds, reset, mv, ow, dry, vb) ==
  [folder |-> Folder, pattern |-> Star,
   rename_method |-> nr.rename_method, index_base |-> nr.index_base,
   pad_width |-> nr.pad_width, index_mul |-> nr.index_mul,
   index_offset |-> nr.index_offset, prefix |-> nr.prefix,
   postfix |-> nr.postfix,
   apply_selection |-> sl.apply_selection, sel_offset |-> sl.sel_offset,
   sel_division |-> sl.sel_division, reset_per_folder |-> reset,
   preserve_tree |-> ds.preserve_tree, dest_root |-> ds.dest_root,
   move |-> mv, overwrite |-> ow, dry_run |-> dry, verbose |-> vb]

ParamSpace ==
  { MakeParams(nr, op.sel, ds, op.reset, mv, ow, dry, op.verbose) :
      nr \in NamingRules, op \in Options, ds \in Destinations,
      mv \in BOOLEAN, ow \in BOOLEAN, dry \in BOOLEAN }

\* the runs that are repeated: not dry, overwrite off
RerunParams == { p \in ParamSpace : ~p.overwrite /\ ~p.dry_run }

\* dry runs that number the files from 0 or 1, globally or per folder
ScanParams ==
  { MakeParams(NamingRule("build_new_name", b, 0, 0, << >>), NoSelection,
               [preserve_tree |-> FALSE, dest_root |-> NoPath],
               reset, FALSE, FALSE, TRUE, TRUE) :
      b \in {0, 1}, reset \in BOOLEAN }

\* dry runs with a selection rule
SelParams ==
  { MakeParams(NamingRule("build_new_name", b, 0, 0, << >>),
               Selection(apply, off, div),
               [preserve_tree |-> FALSE, dest_root |-> NoPath],
               FALSE, FALSE, FALSE, TRUE, TRUE) :
      b \in {0, 1}, apply \in BOOLEAN, off \in (-1)..MaxSelOffset,
      div \in (-1)..MaxSelDivision }

\* runs whose names shift the numbers of the files down or up: numbering from
\* 0 or 1, offset 0 or 1, and the keep rule
ShiftParams ==
  { MakeParams(nr, NoSelection, ds, FALSE, mv, ow, dry, TRUE) :
      nr \in { NamingRule("build_new_name", b, 0, off, << >>) :
                 b \in {0, 1}, off \in {0, 1} }
              \cup { NamingRule("build_keep_name", 1, 0, 0, << >>) },
      ds \in Destinations,
      mv \in BOOLEAN, ow \in BOOLEAN, dry \in BOOLEAN }

\* no pure function called
NoFnCall == [fn |-> "none", arg |-> << >>, done |-> FALSE, res |-> << >>]

\* runs with a destination root, with preserve_tree on and off
TreeParams ==
  { MakeParams(nr, NoSelection, ds, FALSE, mv, ow, dry, FALSE) :
      nr \in NamingRules,
      ds \in { d \in Destinations : d.dest_root = DestDir },
      mv \in BOOLEAN, ow \in BOOLEAN, dry \in BOOLEAN }

\* the worker constructed, run() not yet called
Idle ==
  /\ pc = "idle"
  /\ paths = << >> /\ allPairs = << >> /\ pairs = << >>
  /\ pos = 0 /\ count_ok = 0 /\ count_total = 0
  /\ buf = << >> /\ events = << >> /\ shown = << >>
  /\ fs0 = fs /\ runs = 0 /\ prevEnd = "" /\ prevPaths = << >>
  /\ outcomes = << >>
  /\ last = NoCall
  /\ open_windows = << >>

Init ==
  /\ fs \in Layouts \cup BadFolderLayouts
  /\ params \in ParamSpace
  /\ Idle
  /\ call = NoFnCall

InitRerun ==
  /\ fs \in Layouts
  /\ params \in RerunParams
  /\ Idle
  /\ call = NoFnCall

InitScan ==
  /\ fs \in ScanLayouts
  /\ params \in ScanParams
  /\ Idle
  /\ call = NoFnCall

InitSel ==
  /\ fs \in SelLayouts
  /\ params \in SelParams
  /\ Idle
  /\ call = NoFnCall

InitTree ==
  /\ fs \in TreeLayouts
  /\ params \in TreeParams
  /\ Idle
  /\ call = NoFnCall

InitShift ==
  /\ fs \in Layouts
  /\ params \in ShiftParams
  /\ Idle
  /\ call = NoFnCall

(***************************************************************************)
(* RenamerWorker.run (tools/renamer/pipeline.py).                          *)
(***************************************************************************)
\* a signal emission: progress(a, b), finished(a, b), failed(msg), progressed
Ev(t, a, b, m) == [ev |-> t, a |-> a, b |-> b, msg |-> m]

\* the terminal signal of a finished run
EndOf(evs) == IF Len(evs) = 0 THEN "" ELSE evs[Len(evs)].ev

\* pipeline.py 145-165: the new name of one entry
NewName(p, src, index_value) ==
  IF p.rename_method = "build_keep_name"
  THEN build_keep_name(Stem(PathName(src)), Suffix(PathName(src)),
                       p.prefix, p.postfix)
  ELSE build_new_name(index_value, Suffix(PathName(src)), p.pad_width,
                      p.index_mul, p.index_offset, p.prefix, p.postfix)

\* a variant of DestOf that ignores the destination root
DestOfInPlace(p, src, new_name) == WithName(src, new_name)

\* pipeline.py 167-175: the destination of one entry
DestOf(p, src, new_name) ==
  IF p.preserve_tree /\ p.dest_root # NoPath
  THEN Child(Path(p.dest_root.root,
                  p.dest_root.parts \o RelativeTo(Parent(src), p.folder)),
             new_name)
  ELSE WithName(src, new_name)

\* pipeline.py 178-193: the lines printed for one entry
LogLines(f, p, src, dst, new_name) ==
  LET rel_dir_str == RelStr(RelativeTo(Parent(src), p.folder))
      dest_rel_path == IF rel_dir_str # << "." >>
                       THEN rel_dir_str \o << "/" >> \o new_name ELSE new_name
      action == IF Exists(f, dst)
                THEN (IF ~p.overwrite THEN "skip" ELSE "overwrite")
                ELSE (IF p.move THEN "move" ELSE "copy")
  IN IF p.verbose \/ p.dry_run
     THEN << [action |-> action, rel_dir |-> rel_dir_str,
              src_name |-> PathName(src), dest_rel |-> dest_rel_path] >>
     ELSE << >>

\* the record kept of one ensure_write call
CallOf(f, src, dst, p, inj, r) ==
  [called |-> TRUE, src |-> src, dst |-> dst, move |-> p.move,
   overwrite |-> p.overwrite, dry_run |-> p.dry_run, inj |-> inj,
   before |-> f, raised |-> r.raised, msg |-> r.msg]

\* what one ensure_write call did
OutcomeOf(f, dst, overwrite, r) ==
  [class |-> IF r.raised THEN "raise"
             ELSE IF ~Exists(f, dst) THEN "write"
             ELSE IF overwrite THEN "overwrite" ELSE "skip",
   changed |-> r.fs # f]

\* a variant of FolderValid that accepts every path
FolderValidAlways(f, folder) == TRUE

\* pipeline.py 82: the scan root exists and is a directory
FolderValid(f, folder) == Exists(f, folder) /\ IsDir(f, folder)

\* gui.py 166-180: RenamerWindow._validate returns the values (not None)
Validate(f, p) ==
  /\ p.preserve_tree => p.dest_root # NoPath
  /\ Exists(f, p.folder) /\ IsDir(f, p.folder)

\* pipeline.py 78-139: validation, scan, pairing, filter, first progress
RunStart ==
  /\ \E order \in TraversalOrders(GlobFiles(fs, params.folder, params.pattern)) :
       LET valid == FolderValid(fs, params.folder)
           keyErr == \E i \in 1..Len(order) : KeyRaises(PathName(order[i]))
           sortErr == SortRaises(order)
           ps == IF valid /\ ~keyErr /\ ~sortErr THEN list_files(order) ELSE << >>
           all == AssignPairs(ps, params.index_base, params.reset_per_folder)
           sel == SelectPairs(all, params.apply_selection, params.sel_offset,
                              params.sel_division)
       IN /\ paths' = ps
          /\ allPairs' = all
          /\ pairs' = sel
          /\ events' =
               IF ~valid THEN << Ev("failed", 0, 0, "invalid folder") >>
               ELSE IF keyErr THEN << Ev("failed", 0, 0, "ValueError") >>
               ELSE IF sortErr THEN << Ev("failed", 0, 0, "TypeError") >>
               ELSE IF Len(ps) = 0 \/ Len(sel) = 0
                    THEN << Ev("finished", 0, 0, "") >>
               ELSE << Ev("progress", 0, Len(sel), "") >>
          /\ pc' = IF valid /\ ~keyErr /\ ~sortErr /\ Len(sel) > 0
                   THEN "writing" ELSE "done"
          /\ count_total' = Len(sel)
  /\ pos' = 1
  /\ count_ok' = 0
  /\ buf' = << >>
  /\ shown' = << >>
  /\ outcomes' = << >>
  /\ fs0' = fs
  /\ runs' = runs + 1
  /\ prevEnd' = EndOf(events)
  /\ prevPaths' = paths
  /\ UNCHANGED << fs, params, last, call, open_windows >>

\* run() called on the constructed worker
RunBegin ==
  /\ pc = "idle"
  /\ RunStart

\* a new worker constructed with the same parameters after the previous one
\* ended, and run() called on it
Rerun ==
  /\ pc = "done"
  /\ runs < MaxRuns
  /\ RunStart

\* a variant of NextCount that does not count a skipped entry
NextCountWritten(c, outcome) == IF outcome.class = "skip" THEN c ELSE c + 1

\* pipeline.py 205: count_ok += 1, whatever ensure_write did
NextCount(c, outcome) == c + 1

\* a variant of ProgressOf that emits the counter of before the increment
ProgressOfBefore(c, total) == Ev("progress", c - 1, total, "")

\* pipeline.py 206: self.progress.emit(count_ok, count_total)
ProgressOf(c, total) == Ev("progress", c, total, "")

\* a variant of PcAfterCall in which the loop goes on after an exception
PcAfterCallContinue(raised) == "writing"

\* pipeline.py 144, 215-217: an exception leaves the loop and run() returns
\* from the handler
PcAfterCall(raised) == IF raised THEN "done" ELSE "writing"

\* pipeline.py 144-206 and 215-217: one iteration of the loop over `pairs`,
\* or the exception handler when ensure_write raises in it
WriteEntry ==
  /\ pc = "writing"
  /\ pos <= Len(pairs)
  /\ \E inj \in Injections :
       LET src == pairs[pos][1]
           new_name == NewName(params, src, pairs[pos][2])
           dst == DestOf(params, src, new_name)
           r == ensure_write(fs, src, dst, params.move, params.overwrite,
                             params.dry_run, FALSE, inj)
       IN /\ fs' = r.fs
          /\ last' = CallOf(fs, src, dst, params, inj, r)
          /\ outcomes' = Append(outcomes, OutcomeOf(fs, dst, params.overwrite, r))
          /\ buf' = buf \o LogLines(fs, params, src, dst, new_name)
          /\ pc' = PcAfterCall(r.raised)
          /\ IF r.raised
             THEN /\ events' = Append(events, Ev("failed", 0, 0, r.msg))
                  /\ UNCHANGED << pos, count_ok >>
             ELSE /\ count_ok' = NextCount(count_ok, OutcomeOf(fs, dst, params.overwrite, r))
                  /\ events' = Append(events, ProgressOf(count_ok', count_total))
                  /\ pos' = pos + 1
  /\ UNCHANGED << params, paths, allPairs, pairs, count_total, shown, fs0,
                  runs, prevEnd, prevPaths, call, open_windows >>

\* pipeline.py 208-214: the captured text and the finished signal
RunEnd ==
  /\ pc = "writing"
  /\ pos > Len(pairs)
  /\ shown' = IF Len(buf) > 0 THEN Append(shown, buf) ELSE shown
  /\ events' = (IF Len(buf) > 0 THEN Append(events, Ev("progressed", 0, 0, ""))
                ELSE events)
               \o << Ev("finished", count_ok, count_total, "") >>
  /\ pc' = "done"
  /\ UNCHANGED << fs, params, paths, allPairs, pairs, pos, count_ok,
                  count_total, buf, fs0, runs, prevEnd, prevPaths,
                  outcomes, last, call, open_windows >>

Next == RunBegin \/ WriteEntry \/ RunEnd

NextRerun == RunBegin \/ WriteEntry \/ RunEnd \/ Rerun

\* one run of a worker over every layout and parameter setting
Spec == Init /\ [][Next]_vars

\* a run repeated with the same parameters
SpecRerun == InitRerun /\ [][NextRerun]_vars

\* dry runs over layouts with several folders and natural-sort cases
SpecScan == InitScan /\ [][Next]_vars

\* dry runs with selection rules over the files 1.t .. 6.t
SpecSel == InitSel /\ [][Next]_vars

SpecTree == InitTree /\ [][Next]_vars

SpecShift == InitShift /\ [][Next]_vars

(***************************************************************************)
(* Calls of the pure functions: natural_sort_key and sorted, the name      *)
(* builders, validate_parent_folder_prefix.  A behaviour starts with the   *)
(* inputs of one call and applies the function.                            *)
(***************************************************************************)
\* file names: text, digit run, text; with letters of both cases, numbers
\* with leading zeros, and the superscript two, a digit that is no decimal
KeyNames ==
  { n \in { pre \o dig \o post :
              pre \in { << >>, << "a" >>, << "A" >>, << "²" >> },
              dig \in { << >>, << "1" >>, << "2" >>, << "1", "0" >>, << "0", "2" >> },
              post \in { << >>, << "a" >>, << "²" >>, Ext } }
         \cup { << "1", "²", "2" >> } : Len(n) > 0 }

\* the names of the lists that are sorted
SortNames ==
  { << "a", "1" >>, << "a", "2" >>, << "a", "1", "0" >>, << "A", "2" >>,
    << "a", "0", "2" >>, << "2" >> }

SortLists ==
  { l \in { << x, y, z >> : x \in SortNames, y \in SortNames, z \in SortNames } :
      l[1] # l[2] /\ l[1] # l[3] /\ l[2] # l[3] }

\* prefixes and postfixes of the name builders
PrefixTexts ==
  { << >>, << " " >>, << "f" >>, << "f", "_" >>, << "f", "-" >>,
    << " ", "f", " " >>, << "_" >> }
PostfixTexts ==
  { << >>, << " " >>, << "b" >>, << "_", "b" >>, << "-", "b" >>,
    << " ", "b", " " >>, << "-" >> }

NewNameArg(i, sfx, pad, mul, off, px, post) ==
  [index_value |-> i, suffix |-> sfx, pad_width |-> pad, index_mul |-> mul,
   index_offset |-> off, prefix |-> px, postfix |-> post]

\* build_new_name inputs: every number rule with two prefixes, every prefix
\* and postfix with two number rules
NewNameArgs ==
  { NewNameArg(i, Ext, pad, mul, off, px, << >>) :
      i \in (-2)..3, pad \in {-1, 0, 1, 2, 4}, mul \in {-1, 0, 1, 2, 3, 5},
      off \in {-12, -1, 0, 1, 120}, px \in { << >>, << "f" >> } }
  \cup
  { NewNameArg(1, sfx, pad, 2, 0, px, post) :
      sfx \in { << >>, Ext }, pad \in {0, 4}, px \in PrefixTexts,
      post \in PostfixTexts }

\* two files of one folder with the same extension and different indexes,
\* named with the same rule; the multiplier, in halves, is not zero
NamePairArgs ==
  { [first |-> i, second |-> j, suffix |-> Ext, pad_width |-> pad,
     index_mul |-> mul, index_offset |-> off, prefix |-> px, postfix |-> << >>] :
      i \in 0..MaxIndex, j \in 0..MaxIndex, pad \in {0, 2},
      mul \in {-4, -3, -2, -1, 1, 2, 3, 4, 5}, off \in {-1, 0, 1},
      px \in { << >>, << "f" >> } }

KeepNameArgs ==
  { [original_stem |-> st, suffix |-> sfx, prefix |-> px, postfix |-> post] :
      st \in { << "a" >>, << "_", "a", "-" >> }, sfx \in { << >>, Ext },
      px \in PrefixTexts, post \in PostfixTexts }

RECURSIVE Repeat(_, _)
\* the character c, n times
Repeat(c, n) ==
  IF n <= 0 THEN << >>
  ELSE IF n % 2 = 1 THEN << c >> \o Repeat(c, n - 1)
  ELSE LET half == Repeat(c, n \div 2) IN half \o half

\* relative parent directories of up to two parts, new names of lengths
\* around MAX_FILENAME_LEN
ValidateArgs ==
  LET segs == { << "a" >>, << "b", "b" >>, << " " >>, << "a", ":", "b" >>,
                << " ", "." >>, << "*" >> }
      rels == { << >> } \cup { << x >> : x \in segs }
              \cup { << x, y >> : x \in segs, y \in segs }
  IN { [rel_parent |-> r, new_name |-> Repeat("x", n)] :
         r \in rels,
         n \in { 1, MAX_FILENAME_LEN - 5, MAX_FILENAME_LEN - 3,
                 MAX_FILENAME_LEN - 2, MAX_FILENAME_LEN - 1,
                 MAX_FILENAME_LEN, MAX_FILENAME_LEN + 1 } }

FnCall(f, a) == [fn |-> f, arg |-> a, done |-> FALSE, res |-> << >>]

FnCalls ==
  { FnCall("natural_sort_key", << x, y >>) : x \in KeyNames, y \in KeyNames }
  \cup { FnCall("sorted", l) : l \in SortLists }
  \cup { FnCall("build_new_name", a) : a \in NewNameArgs }
  \cup { FnCall("build_keep_name", a) : a \in KeepNameArgs }
  \cup { FnCall("build_new_name of two entries", a) :
           a \in { b \in NamePairArgs : b.first < b.second } }
  \cup { FnCall("validate_parent_folder_prefix", a) : a \in ValidateArgs }

InitFn ==
  /\ fs = Layout({}, {})
  /\ params \in ScanParams
  /\ Idle
  /\ call \in FnCalls

Applied(r) == call' = [call EXCEPT !.done = TRUE, !.res = r]

Frame ==
  UNCHANGED << fs, pc, params, paths, allPairs, pairs, pos, count_ok,
               count_total, buf, events, shown, fs0, runs, prevEnd, prevPaths,
               outcomes, last, open_windows >>

\* natural_sort_key of two names, and the comparison of the two keys
ApplySortKey ==
  /\ call.fn = "natural_sort_key" /\ ~call.done
  /\ LET raised == KeyRaises(call.arg[1]) \/ KeyRaises(call.arg[2])
         k1 == natural_sort_key(call.arg[1])
         k2 == natural_sort_key(call.arg[2])
     IN Applied([raised |-> raised,
                 keys |-> IF raised THEN << >> ELSE << k1, k2 >>,
                 cmp |-> IF raised THEN 0 ELSE KeyCmp(k1, k2)])
  /\ Frame

RECURSIVE NamesOf(_)
NamesOf(ps) == IF Len(ps) = 0 THEN << >> ELSE << PathName(ps[1]) >> \o NamesOf(Tail(ps))

RECURSIVE PathsIn(_)
PathsIn(ns) == IF Len(ns) = 0 THEN << >> ELSE << Path("S", << ns[1] >>) >> \o PathsIn(Tail(ns))

\* sorted(paths, key=natural_sort_key) of a list of names
ApplySorted ==
  /\ call.fn = "sorted" /\ ~call.done
  /\ Applied(NamesOf(SortByKey(PathsIn(call.arg))))
  /\ Frame

ApplyBuildNewName ==
  /\ call.fn = "build_new_name" /\ ~call.done
  /\ LET a == call.arg
     IN Applied(build_new_name(a.index_value, a.suffix, a.pad_width, a.index_mul,
                               a.index_offset, a.prefix, a.postfix))
  /\ Frame

\* pipeline.py 144-165: the loop names two entries with the same rule
ApplyBuildNewNames ==
  /\ call.fn = "build_new_name of two entries" /\ ~call.done
  /\ LET a == call.arg
     IN Applied(<< build_new_name(a.first, a.suffix, a.pad_width, a.index_mul,
                                  a.index_offset, a.prefix, a.postfix),
                   build_new_name(a.second, a.suffix, a.pad_width, a.index_mul,
                                  a.index_offset, a.prefix, a.postfix) >>)
  /\ Frame

ApplyBuildKeepName ==
  /\ call.fn = "build_keep_name" /\ ~call.done
  /\ LET a == call.arg
     IN Applied(build_keep_name(a.original_stem, a.suffix, a.prefix, a.postfix))
  /\ Frame

ApplyValidate ==
  /\ call.fn = "validate_parent_folder_prefix" /\ ~call.done
  /\ Applied(validate_parent_folder_prefix(call.arg.rel_parent, call.arg.new_name))
  /\ Frame

NextFn ==
  \/ ApplySortKey
  \/ ApplySorted
  \/ ApplyBuildNewName
  \/ ApplyBuildNewNames
  \/ ApplyBuildKeepName
  \/ ApplyValidate

SpecFn == InitFn /\ [][NextFn]_vars

(***************************************************************************)
(* The GUI shell: the home screen (main_gui.py) opens tool windows, a tool *)
(* window starts a worker in a QThread and handles its terminal signal     *)
(* (tools/renamer/gui.py, tools/folder_creator/gui.py).  A window is a     *)
(* record: `running` is the argument of the last _set_running call (the    *)
(* controls are disabled while it is TRUE), `worker` is self.worker,       *)
(* `executing` counts the worker threads of the window that are inside     *)
(* run(), `emitted` is the queue of terminal signals not yet handled.      *)
(***************************************************************************)
\* the tools registered by _register_all_tools
RegisteredTools == { "renamer", "folder_creator" }

\* the keyword arguments _start_worker passes to the worker's constructor
WorkerKeywords(tool) ==
  IF tool = "renamer"
  THEN { "folder", "pattern", "rename_method", "index_base", "pad_width",
         "index_mul", "index_offset", "prefix", "postfix", "apply_selection",
         "sel_offset", "sel_division", "reset_per_folder", "preserve_tree",
         "preserve_folder_structure", "dest_root", "move", "overwrite",
         "dry_run", "verbose" }
  ELSE { "parent_path", "count", "prefix", "suffix", "padding", "start_index" }

\* the parameters of the worker's __init__
WorkerParameters(tool) ==
  IF tool = "renamer"
  THEN { "folder", "pattern", "rename_method", "index_base", "pad_width",
         "index_mul", "index_offset", "prefix", "postfix", "apply_selection",
         "sel_offset", "sel_division", "reset_per_folder", "preserve_tree",
         "dest_root", "move", "overwrite", "dry_run", "verbose" }
  ELSE { "parent_path", "count", "prefix", "suffix", "padding", "start_index" }

\* a call with a keyword the function does not have raises TypeError
ConstructRaises(tool) == ~(WorkerKeywords(tool) \subseteq WorkerParameters(tool))

\* the window as its __init__ leaves it
NewWindow(tool) ==
  [tool |-> tool, running |-> FALSE, worker |-> "none", executing |-> 0,
   emitted |-> << >>, dry_run_override |-> "None"]

ControlsEnabledAlways(w) == TRUE

\* _set_running: every control, the run and preview buttons included, is
\* enabled exactly when the window is not running
ControlsEnabled(w) == ~w.running

\* _start_worker: validation, _set_running(True), the worker constructed and
\* its thread started; the TypeError of the constructor leaves the slot
StartWorkerOf(w, valid, preview) ==
  IF ~valid THEN w
  ELSE LET busy == [w EXCEPT !.running = TRUE,
                             !.dry_run_override = IF preview THEN "True" ELSE "None"]
       IN IF ConstructRaises(w.tool) THEN busy
          ELSE [busy EXCEPT !.worker = "set", !.executing = @ + 1]

\* _cleanup_worker and _set_running(False) of _on_finished and _on_failed
HandleTerminal(w) ==
  [w EXCEPT !.emitted = Tail(@), !.worker = "none", !.running = FALSE]

EngineFrame ==
  UNCHANGED << fs, pc, params, paths, allPairs, pairs, pos, count_ok,
               count_total, buf, events, shown, fs0, runs, prevEnd, prevPaths,
               outcomes, last, call >>

\* MainWindow._open_tool: a click on a tool button of the home screen
OpenTool ==
  /\ Len(open_windows) < MaxWindows
  /\ \E tool \in RegisteredTools :
       open_windows' = Append(open_windows, NewWindow(tool))
  /\ EngineFrame

\* _on_run and _on_preview (the renamer only): a click on an enabled button
StartWorker ==
  /\ \E i \in 1..Len(open_windows), valid \in BOOLEAN, preview \in BOOLEAN :
       LET w == open_windows[i]
       IN /\ ControlsEnabled(w)
          /\ preview => w.tool = "renamer"
          /\ w.executing + Len(w.emitted) < MaxWorkers
          /\ open_windows' =
               [open_windows EXCEPT ![i] = StartWorkerOf(w, valid, preview)]
  /\ EngineFrame

\* the worker's run() of window i returns after emitting finished or failed
WorkerEndsIn(i) ==
  /\ i <= Len(open_windows)
  /\ open_windows[i].executing > 0
  /\ \E signal \in { "finished", "failed" } :
       open_windows' = [open_windows EXCEPT ![i].executing = @ - 1,
                                               ![i].emitted = Append(@, signal)]
  /\ EngineFrame

WorkerEnds == \E i \in 1..MaxWindows : WorkerEndsIn(i)

OnTerminal(i, signal) ==
  /\ i <= Len(open_windows)
  /\ open_windows[i].emitted # << >>
  /\ Head(open_windows[i].emitted) = signal
  /\ open_windows' = [open_windows EXCEPT ![i] = HandleTerminal(@)]
  /\ EngineFrame

\* the slot _on_finished
OnFinished == \E i \in 1..MaxWindows : OnTerminal(i, "finished")

\* the slot _on_failed
OnFailed == \E i \in 1..MaxWindows : OnTerminal(i, "failed")

InitGui ==
  /\ fs = Layout({}, {})
  /\ params = CHOOSE p \in ScanParams : TRUE
  /\ Idle
  /\ call = NoFnCall

NextGui == OpenTool \/ StartWorker \/ WorkerEnds \/ OnFinished \/ OnFailed

SpecGui == InitGui /\ [][NextGui]_vars

\* a worker's run() returns and the event loop delivers queued signals;
\* nothing obliges the user to click
SpecGuiLive ==
  /\ InitGui /\ [][NextGui]_vars
  /\ \A i \in 1..MaxWindows :
       /\ WF_vars(WorkerEndsIn(i))
       /\ WF_vars(OnTerminal(i, "finished"))
       /\ WF_vars(OnTerminal(i, "failed"))

(***************************************************************************)
(* The folder creator: create_folders (tools/folder_creator/functions.py)  *)
(* and FolderCreatorWorker.run (tools/folder_creator/pipeline.py).  A      *)
(* behaviour starts with a directory layout and the arguments of one call. *)
(***************************************************************************)
\* f"{prefix}_{index:0{padding}d}_{suffix}"
FolderName(a, index) ==
  a.prefix \o << "_" >> \o FormatInt(index, a.padding) \o << "_" >> \o a.suffix

\* Path.mkdir(parents=True, exist_ok=True) of a path that does not exist
FolderMkdir(f, d) ==
  LET m == Mkdir(f, d)
  IN [m EXCEPT !.msg = IF m.raised THEN "NotADirectoryError" ELSE ""]

\* functions.py 60-75: the loop from iteration i on
RECURSIVE CreateFrom(_, _, _, _)
CreateFrom(f, a, i, created_folders) ==
  IF i >= a.count THEN Return(f, created_folders)
  ELSE LET folder_path == Child(a.parent_path, FolderName(a, a.start_index + i))
       IN IF ~Exists(f, folder_path)
          THEN LET m == FolderMkdir(f, folder_path)
               IN IF m.raised THEN Raise(m.fs, m.msg, created_folders)
                  ELSE CreateFrom(m.fs, a, i + 1, Append(created_folders, folder_path))
          ELSE CreateFrom(f, a, i + 1, Append(created_folders, folder_path))

create_folders(f, a) ==
  IF ~Exists(f, a.parent_path)
  THEN LET m == FolderMkdir(f, a.parent_path)
       IN IF m.raised THEN Raise(m.fs, m.msg, << >>)
          ELSE CreateFrom(m.fs, a, 0, << >>)
  ELSE CreateFrom(f, a, 0, << >>)

\* pipeline.py 62-64: the signals emitted for the returned list
RECURSIVE CreatedSignals(_, _, _)
CreatedSignals(created_folders, i, count) ==
  IF i > Len(created_folders) THEN << >>
  ELSE << Ev("progress", i, count, ""),
          Ev("progressed", 0, 0, "Created") >>
       \o CreatedSignals(created_folders, i + 1, count)

\* the texts of the progressed signals: "Creating ..." and "Created: <name>"
CreatedTexts(created_folders) ==
  << [text |-> "Creating", name |-> << >>] >>
  \o [i \in 1..Len(created_folders) |->
        [text |-> "Created", name |-> PathName(created_folders[i])]]

\* FolderCreatorWorker.run: the result of create_folders and the signals
FolderCreatorRun(f, a) ==
  LET r == create_folders(f, a)
      start == << Ev("progress", 0, a.count, ""), Ev("progressed", 0, 0, "Creating") >>
  IN [res |-> r,
      events |-> IF r.raised THEN Append(start, Ev("failed", 0, 0, r.msg))
                 ELSE start \o CreatedSignals(r.out, 1, a.count)
                      \o << Ev("finished", Len(r.out), 0, "") >>,
      shown |-> IF r.raised THEN << [text |-> "Creating", name |-> << >>] >>
                ELSE CreatedTexts(r.out)]

\* names a call can produce, present before the call as a directory or as a
\* regular file
FolderCandidates ==
  { << "a", "_", "1", "_", "b" >>, << "a", "_", "2", "_", "b" >>,
    << "a", "_", "0", "1", "_", "b" >> }

NewParent == Path("S", << << "n" >> >>)

\* the parent with some of the names present
FolderLayouts ==
  { [q \in { Folder } \cup { Child(Folder, n) : n \in DOMAIN kinds } |->
       IF q = Folder THEN DirNode
       ELSE IF kinds[PathName(q)] = "dir" THEN DirNode ELSE FileNode("c")] :
    kinds \in UNION { [ns -> { "dir", "file" }] : ns \in SUBSET FolderCandidates } }
  \cup { [q \in { Folder } |-> FileNode("c0")] }

FolderArgs ==
  { [parent_path |-> pp, count |-> c, prefix |-> << "a" >>, suffix |-> << "b" >>,
     padding |-> pd, start_index |-> st] :
      pp \in { Folder, NewParent }, c \in 0..MaxCount, pd \in { 1, 2 },
      st \in { 0, 1, 9 } }

FolderCalls ==
  { FnCall(fn, a) : fn \in { "create_folders", "FolderCreatorWorker.run" },
                    a \in FolderArgs }

InitFolder ==
  /\ fs \in FolderLayouts
  /\ params = CHOOSE p \in ScanParams : TRUE
  /\ Idle
  /\ call \in FolderCalls

FolderFrame ==
  UNCHANGED << pc, params, paths, allPairs, pairs, pos, count_ok, count_total,
               buf, fs0, runs, prevEnd, prevPaths, outcomes, last, open_windows >>

\* a call of create_folders
CallCreateFolders ==
  /\ call.fn = "create_folders" /\ ~call.done
  /\ LET r == create_folders(fs, call.arg)
     IN fs' = r.fs /\ Applied(r)
  /\ UNCHANGED << events, shown >>
  /\ FolderFrame

\* the worker's run()
RunFolderCreator ==
  /\ call.fn = "FolderCreatorWorker.run" /\ ~call.done
  /\ LET w == FolderCreatorRun(fs, call.arg)
     IN /\ fs' = w.res.fs /\ Applied(w.res)
        /\ events' = w.events /\ shown' = w.shown
  /\ FolderFrame

NextFolder == CallCreateFolders \/ RunFolderCreator

SpecFolder == InitFolder /\ [][NextFolder]_vars

(***************************************************************************)
(* The scan tree and the preview of the renamer window                     *)
(* (tools/renamer/gui.py), over the file list the engine scanned.  `call`  *)
(* holds what the window shows: the children of the scan tree as           *)
(* (file, index) pairs, the highlighted files, the pairs of the preview.   *)
(***************************************************************************)
\* gui.py 349-357: the groups in key order, each sorted, one running index
RECURSIVE ConcatConsecutive(_, _, _)
ConcatConsecutive(keys, files, current_index) ==
  IF Len(keys) = 0 THEN << >>
  ELSE LET group_paths == SortByKey(GroupOf(files, keys[1]))
       IN EnumerateFrom(group_paths, current_index)
          \o ConcatConsecutive(Tail(keys), files, current_index + Len(group_paths))

\* RenamerWindow._compute_pairs_for_ui
compute_pairs_for_ui(files, base, reset_per_folder) ==
  IF ~reset_per_folder
  THEN ConcatConsecutive(SortByLower(GroupKeys(files)), files, base)
  ELSE ConcatGroups(SortByLower(GroupKeys(files)), files, base)

\* RenamerWindow._populate_tree: the children in tree order, each with the
\* index kept in its Qt.UserRole data
populate_tree(files, base) ==
  ConcatGroups(SortByLower(GroupKeys(files)), files, base)

\* RenamerWindow._highlight_tree: the files of the highlighted children
highlight_tree(tree, apply_sel, sel_off, sel_div) ==
  { tree[k][1] : k \in { n \in 1..Len(tree) :
      apply_sel /\ sel_div > 0 /\ PyMod(tree[n][2] - sel_off, sel_div) = 0 } }

\* the window before a scan
UiWindow ==
  [fn |-> "RenamerWindow", arg |-> << >>, done |-> FALSE,
   res |-> [scanned |-> FALSE, tree |-> << >>, highlighted |-> {},
            previewed |-> FALSE, preview |-> << >>]]

\* numbering from 0 or 1, globally or per folder, with and without a
\* selection rule
UiParams ==
  { MakeParams(NamingRule("build_new_name", b, 0, 0, << >>), sl,
               [preserve_tree |-> FALSE, dest_root |-> NoPath],
               reset, FALSE, FALSE, TRUE, TRUE) :
      b \in {0, 1}, reset \in BOOLEAN,
      sl \in { NoSelection, Selection(TRUE, 0, 2), Selection(TRUE, 1, 2) } }

InitUi ==
  /\ fs \in ScanLayouts
  /\ params \in UiParams
  /\ Idle
  /\ call = UiWindow

UiFrame ==
  UNCHANGED << fs, pc, params, paths, allPairs, pairs, pos, count_ok,
               count_total, buf, events, shown, fs0, runs, prevEnd, prevPaths,
               outcomes, last, open_windows >>

\* _on_scan: _populate_tree and _highlight_tree over the scanned list
OnScan ==
  /\ pc # "idle" /\ ~call.res.scanned
  /\ LET tree == populate_tree(paths, params.index_base)
     IN call' = [call EXCEPT !.done = TRUE, !.res.scanned = TRUE,
                             !.res.tree = tree,
                             !.res.highlighted =
                               highlight_tree(tree, params.apply_selection,
                                              params.sel_offset, params.sel_division)]
  /\ UiFrame

\* _update_preview_tree: _compute_pairs_for_ui over the scanned list
UpdatePreviewTree ==
  /\ pc # "idle" /\ ~call.res.previewed
  /\ call' = [call EXCEPT !.done = TRUE, !.res.previewed = TRUE,
                          !.res.preview =
                            compute_pairs_for_ui(paths, params.index_base,
                                                 params.reset_per_folder)]
  /\ UiFrame

NextUi == RunBegin \/ WriteEntry \/ RunEnd \/ OnScan \/ UpdatePreviewTree

SpecUi == InitUi /\ [][NextUi]_vars

(***************************************************************************)
(* Properties.                                                             *)
(***************************************************************************)
Classes == { outcomes[i].class : i \in 1..Len(outcomes) }
Terminal(e) == e.ev \in {"finished", "failed"}
ProgressEvents == SelectSeq(events, LAMBDA e : e.ev = "progress")
TerminalEvents == SelectSeq(events, Terminal)
\* the ensure_write calls of the current run that returned
Returned == SelectSeq(outcomes, LAMBDA o : o.class # "raise")
\* the files the scan of the current run found
Scanned == GlobFiles(fs0, params.folder, params.pattern)
PathsOf(prs) == { prs[i][1] : i \in 1..Len(prs) }
IndexesOf(prs) == { prs[i][2] : i \in 1..Len(prs) }

\* C1: a run with dry_run = true leaves the filesystem exactly as it was when
\* the run started, for every setting of move, overwrite, naming and
\* destination, whatever is classified for each file.
C1_DryRunLeavesFilesystem == params.dry_run => fs = fs0

\* a dry run in move and overwrite mode finished after classifying one entry
\* as overwrite and another as write
C1_Witness ==
  /\ params.dry_run /\ params.move /\ params.overwrite
  /\ pc = "done" /\ EndOf(events) = "finished"
  /\ {"overwrite", "write"} \subseteq Classes

\* C2: ensure_write with overwrite = false on an existing dst returns without
\* changing the filesystem, in move mode and in copy mode.
C2_SkipMutatesNothing ==
  (last.called /\ Exists(last.before, last.dst) /\ ~last.overwrite)
    => (fs = last.before /\ ~last.raised)

\* a non-dry move onto an existing destination with overwrite off
C2_Witness ==
  /\ last.called /\ Exists(last.before, last.dst) /\ ~last.overwrite
  /\ last.move /\ ~last.dry_run /\ last.src # last.dst

\* the last ensure_write call proceeded and returned
Proceeded ==
  /\ last.called /\ ~last.raised /\ ~last.dry_run
  /\ (~Exists(last.before, last.dst) \/ last.overwrite)

\* C3: when ensure_write proceeds and returns, dst holds the content src
\* had, the directories above dst exist, and src still exists exactly when
\* move = false.
C3_ProceedWritesDst ==
  Proceeded =>
    /\ IsFile(fs, last.dst)
    /\ fs[last.dst] = last.before[last.src]
    /\ \A a \in Ancestors(Parent(last.dst)) : IsDir(fs, a)
    /\ Exists(fs, last.src) <=> ~last.move

\* C3 for every destination that is not an existing directory
C3_ProceedWritesFileDst ==
  (Proceeded /\ ~IsDir(last.before, last.dst)) =>
    /\ IsFile(fs, last.dst)
    /\ fs[last.dst] = last.before[last.src]
    /\ \A a \in Ancestors(Parent(last.dst)) : IsDir(fs, a)
    /\ Exists(fs, last.src) <=> ~last.move

\* the second run ended, after a first run that completed
SecondRunEnded == runs >= 2 /\ pc = "done" /\ prevEnd = "finished"

\* the run ended with finished(n, n), changed nothing and skipped every entry
RunSkippedAll ==
  /\ EndOf(events) = "finished"
  /\ events[Len(events)].a = events[Len(events)].b
  /\ fs = fs0
  /\ Classes \subseteq {"skip"}

\* C4 as claimed: a run repeated with the same parameters and overwrite off
\* after a completed run ends with finished(n, n) and mutates nothing, in
\* move and copy mode, in place and with a destination root.
C4_RerunSkipsAll == SecondRunEnded => RunSkippedAll

\* copy mode with a destination root outside the scan root, the scan listing
\* the files in the order of the previous run
CopyToDestSameScan ==
  /\ ~params.move /\ params.preserve_tree /\ params.dest_root = DestDir
  /\ paths = prevPaths

\* C4 amended: the same, for copy mode with a separate destination root
\* outside the scan root, when the second scan lists the files in the order
\* of the first.
C4_CopyToDestRerunSkipsAll ==
  (SecondRunEnded /\ CopyToDestSameScan) => RunSkippedAll

\* the repeated copy to the destination root skipped two entries that the
\* first run had copied or found there
C4_Witness ==
  /\ SecondRunEnded /\ CopyToDestSameScan
  /\ Len(outcomes) >= 2
  /\ \E q \in DOMAIN fs : q.root = "D" /\ fs[q] = FileNode("c2")

\* C5: the progress signals carry strictly increasing counters, there is one
\* for each processed entry, no terminal signal is emitted while the run is
\* going on, and a run that ended emitted exactly one terminal signal, as its
\* last signal.
C5_ProgressThenOneTerminal ==
  /\ \A i, j \in 1..Len(ProgressEvents) :
       i < j => ProgressEvents[i].a < ProgressEvents[j].a
  /\ \A k \in 1..Len(Returned) :
       Cardinality({ i \in 1..Len(events) :
                     events[i].ev = "progress" /\ events[i].a = k }) = 1
  /\ \A i \in 1..Len(ProgressEvents) : ProgressEvents[i].a <= Len(Returned)
  /\ Len(TerminalEvents) = (IF pc = "done" THEN 1 ELSE 0)
  /\ pc = "done" => Terminal(events[Len(events)])
  /\ pc = "idle" => events = << >>

\* a run that processed three entries and finished
C5_Witness ==
  /\ pc = "done" /\ EndOf(events) = "finished"
  /\ Len(Returned) = 3 /\ Len(ProgressEvents) = 4

\* n divides m
Divides(n, m) == \E q \in (-20)..20 : m = q * n

\* the entry passes the selection rule of the parameters
Selected(pr) ==
  (params.apply_selection /\ params.sel_division > 0)
    => Divides(params.sel_division, pr[2] - params.sel_offset)

\* C6: finished(succeeded, total) carries succeeded = total = the number of
\* entries that pass the selection filter, and every entry handed to
\* ensure_write is counted, skipped, overwritten or written.
C6_FinishedCountsAll ==
  \A i \in 1..Len(events) :
    events[i].ev = "finished" =>
      /\ events[i].a = events[i].b
      /\ events[i].b = Len(SelectSeq(allPairs, Selected))
      /\ events[i].a = Len(outcomes)

\* a run finished after a skip and a write
C6_Witness ==
  /\ EndOf(events) = "finished" /\ ~params.dry_run
  /\ events[Len(events)].a >= 2
  /\ {"skip", "write"} \subseteq Classes

\* C7: when ensure_write raises for the k-th entry the run is over: failed is
\* emitted last, with the message of the exception, finished is not
\* emitted, and the failing call is the last call (no later entry is
\* processed, no call is repeated).
C7_WriteErrorAborts ==
  (last.called /\ last.raised) =>
    /\ pc = "done"
    /\ events[Len(events)] = Ev("failed", 0, 0, last.msg)
    /\ \A i \in 1..Len(events) : events[i].ev # "finished"
    /\ Len(outcomes) = count_ok + 1
    /\ outcomes[Len(outcomes)].class = "raise"
    /\ pos = count_ok + 1
    /\ pairs[pos][1] = last.src

\* the second of three entries raised after the first was written
C7_Witness ==
  /\ last.called /\ last.raised /\ pc = "done"
  /\ count_ok = 1 /\ Len(pairs) = 3
  /\ outcomes[1].class = "write"

\* C8: with apply_selection and sel_division > 0 the pairs kept are exactly
\* those whose index minus sel_offset is a multiple of sel_division, in their
\* order; otherwise the pair list is unchanged.  Offset 1 and divisor 3 over
\* the indexes 1..6 keep exactly 1 and 4.
C8_SelectionFilter ==
  pc # "idle" =>
    /\ pairs = SelectSeq(allPairs, Selected)
    /\ (params.apply_selection /\ params.sel_offset = 1
          /\ params.sel_division = 3 /\ IndexesOf(allPairs) = 1..6)
         => IndexesOf(pairs) = {1, 4}
    /\ (~params.apply_selection \/ params.sel_division <= 0)
         => pairs = allPairs

\* offset 1 and divisor 3 over the indexes 1..6 kept 1 and 4
C8_Witness ==
  /\ pc # "idle" /\ params.apply_selection
  /\ params.sel_offset = 1 /\ params.sel_division = 3
  /\ IndexesOf(allPairs) = 1..6
  /\ IndexesOf(pairs) = {1, 4}

\* the natural sort key of the final path component
KeyOf(p) == natural_sort_key(PathName(p))

\* C9: without per-folder reset every scanned file is paired once, the
\* files are in the order of their natural sort keys, and the file at
\* 0-based position i has the index index_base + i.
C9_GlobalIndexes ==
  (pc # "idle" /\ ~params.reset_per_folder) =>
    /\ Len(allPairs) = Cardinality(Scanned)
    /\ PathsOf(allPairs) = Scanned
    /\ \A i, j \in 1..Len(allPairs) :
         i < j => KeyCmp(KeyOf(allPairs[i][1]), KeyOf(allPairs[j][1])) \in {-1, 0}
    /\ \A i \in 1..Len(allPairs) : allPairs[i][2] = params.index_base + (i - 1)
    /\ IndexesOf(allPairs)
         = params.index_base..(params.index_base + Cardinality(Scanned) - 1)

\* four files of three folders numbered globally from 0, f2.t before f10.t
C9_Witness ==
  /\ pc # "idle" /\ ~params.reset_per_folder /\ params.index_base = 0
  /\ Len(allPairs) = 4
  /\ Cardinality({ GroupKey(allPairs[i][1]) : i \in 1..4 }) = 3
  /\ \E i, j \in 1..4 :
       /\ i < j
       /\ PathName(allPairs[i][1]) = << "f", "2" >> \o Ext
       /\ PathName(allPairs[j][1]) = << "f", "1", "0" >> \o Ext

\* the pairs before position i that are of the same folder as pair i
SameGroupBefore(i) ==
  { j \in 1..(i - 1) : GroupKey(allPairs[j][1]) = GroupKey(allPairs[i][1]) }

\* C10: with per-folder reset every scanned file is paired once, the groups
\* (the files of one parent directory relative to the scan root) follow each
\* other in case-insensitive order of the relative path, and within each
\* group the files are in natural sort order and numbered index_base,
\* index_base + 1, ...
C10_PerFolderIndexes ==
  (pc # "idle" /\ params.reset_per_folder) =>
    /\ Len(allPairs) = Cardinality(Scanned)
    /\ PathsOf(allPairs) = Scanned
    /\ \A i, j \in 1..Len(allPairs) :
         i < j =>
           /\ StrCmp(Lower(GroupKey(allPairs[i][1])),
                     Lower(GroupKey(allPairs[j][1]))) \in {-1, 0}
           /\ GroupKey(allPairs[i][1]) = GroupKey(allPairs[j][1])
                => /\ KeyCmp(KeyOf(allPairs[i][1]), KeyOf(allPairs[j][1])) \in {-1, 0}
                   /\ \A k \in i..j : GroupKey(allPairs[k][1]) = GroupKey(allPairs[i][1])
    /\ \A i \in 1..Len(allPairs) :
         allPairs[i][2] = params.index_base + Cardinality(SameGroupBefore(i))

\* the groups ".", "a" and "B" in this order, two files in "B"
C10_Witness ==
  /\ pc # "idle" /\ params.reset_per_folder /\ params.index_base = 1
  /\ Len(allPairs) = 4
  /\ GroupKey(allPairs[1][1]) = << "." >>
  /\ GroupKey(allPairs[2][1]) = SubA
  /\ GroupKey(allPairs[3][1]) = SubB
  /\ GroupKey(allPairs[4][1]) = SubB
  /\ allPairs[4][2] = 2

\* the pairs the run would have built had the traversal yielded the scanned
\* files in the order o
PairsFor(o) ==
  AssignPairs(list_files(o), params.index_base, params.reset_per_folder)

\* C11: the (file, index) pairs of a run over an unchanged directory do not
\* depend on the order in which the directory traversal yields the files:
\* every traversal order gives the pairs this run built.
C11_PairsIndependentOfTraversal ==
  pc # "idle" => \A o \in TraversalOrders(Scanned) : PairsFor(o) = allPairs

\* no two scanned files that are sorted together have equal sort keys
KeysDistinct ==
  \A p, q \in Scanned :
    (p # q /\ (params.reset_per_folder => GroupKey(p) = GroupKey(q)))
      => KeyCmp(KeyOf(p), KeyOf(q)) # 0

\* C11 for the directories in which no two files that are sorted together
\* have equal keys
C11_DistinctKeysIndependentOfTraversal ==
  (pc # "idle" /\ KeysDistinct)
    => \A o \in TraversalOrders(Scanned) : PairsFor(o) = allPairs

\* s is a non-empty string of decimal digits
IsNumber(s) == Len(s) > 0 /\ \A i \in 1..Len(s) : s[i] \in DigitChars

\* n1 and n2 are equal except for one digit run, and the number in n1 is the
\* smaller one: n1 = pre d1 post, n2 = pre d2 post, with d1 and d2 whole runs
SmallerInOneRun(n1, n2) ==
  \E i \in 0..Len(n1) : \E j1 \in (i + 1)..Len(n1) : \E j2 \in (i + 1)..Len(n2) :
    /\ i <= Len(n2)
    /\ SubSeq(n1, 1, i) = SubSeq(n2, 1, i)
    /\ SubSeq(n1, j1 + 1, Len(n1)) = SubSeq(n2, j2 + 1, Len(n2))
    /\ IsNumber(SubSeq(n1, i + 1, j1)) /\ IsNumber(SubSeq(n2, i + 1, j2))
    /\ (i > 0 => n1[i] \notin DigitChars)
    /\ (j1 < Len(n1) => n1[j1 + 1] \notin DigitChars)
    /\ IntOf(SubSeq(n1, i + 1, j1)) < IntOf(SubSeq(n2, i + 1, j2))

A2A10A1 == << << "a", "2" >>, << "a", "1", "0" >>, << "a", "1" >> >>
A1A2A10 == << << "a", "1" >>, << "a", "2" >>, << "a", "1", "0" >> >>

\* C12: of two names that are equal except for one digit run, the one with
\* the smaller number has the smaller key; names that differ only in letter
\* case have equal keys; a sorted list never has the name with the larger
\* number first, and [a2, a10, a1] sorts to [a1, a2, a10].
C12_NaturalOrder ==
  /\ (call.fn = "natural_sort_key" /\ call.done /\ ~call.res.raised) =>
       /\ SmallerInOneRun(call.arg[1], call.arg[2]) => call.res.cmp = -1
       /\ Lower(call.arg[1]) = Lower(call.arg[2]) => call.res.cmp = 0
  /\ (call.fn = "sorted" /\ call.done) =>
       /\ \A i, j \in 1..Len(call.res) :
            i < j => ~SmallerInOneRun(call.res[j], call.res[i])
       /\ { call.res[i] : i \in 1..Len(call.res) }
            = { call.arg[i] : i \in 1..Len(call.arg) }
       /\ call.arg = A2A10A1 => call.res = A1A2A10

\* [a2, a10, a1] was sorted
C12_Witness ==
  /\ call.fn = "sorted" /\ call.done
  /\ call.arg = A2A10A1 /\ call.res = A1A2A10

\* C13: natural_sort_key returns a key for every file name, and any two
\* keys compare without an int token meeting a str token.
C13_KeyNeverFails ==
  (call.fn = "natural_sort_key" /\ call.done) =>
    /\ ~call.res.raised
    /\ call.res.cmp \in {-1, 0, 1}

\* C13 for the names natural_sort_key returns a key for: the two keys compare
C13_ReturnedKeysCompare ==
  (call.fn = "natural_sort_key" /\ call.done /\ ~call.res.raised) =>
    call.res.cmp \in {-1, 0, 1}

\* prefix + sep + core + sep2 + postfix + extension, as the rule states it
Assembled(prefix, core, postfix, extension) ==
  LET px == Strip(prefix)
      post == Strip(postfix)
      sep == IF px[Len(px)] \in {"_", "-"} THEN << >> ELSE << "_" >>
      sep2 == IF post[1] \in {"_", "-"} THEN << >> ELSE << "_" >>
      left == IF px = << >> THEN << >> ELSE px \o sep
      right == IF post = << >> THEN << >> ELSE sep2 \o post
  IN left \o core \o right \o extension

\* the number build_new_name renders for the call
Rendered(a) ==
  FormatInt(RoundHalfEven(a.index_value * a.index_mul + 2 * a.index_offset),
            IF a.pad_width < 0 THEN 0 ELSE a.pad_width)

\* C14: build_new_name (core = rendered number) and build_keep_name (core =
\* original stem) return prefix + sep + core + sep2 + postfix + extension,
\* prefix and postfix trimmed, an empty one contributing neither text nor
\* separator, sep empty when the prefix ends in '_' or '-', sep2 empty when
\* the postfix starts with '_' or '-', '_' otherwise.
C14_NameAssembly ==
  /\ (call.fn = "build_new_name" /\ call.done) =>
       call.res = Assembled(call.arg.prefix, Rendered(call.arg),
                            call.arg.postfix, call.arg.suffix)
  /\ (call.fn = "build_keep_name" /\ call.done) =>
       call.res = Assembled(call.arg.prefix, call.arg.original_stem,
                            call.arg.postfix, call.arg.suffix)

\* build_keep_name with prefix " f " and postfix "-b" returned f_a-b.t
C14_Witness ==
  /\ call.fn = "build_keep_name" /\ call.done
  /\ call.arg.prefix = << " ", "f", " " >> /\ call.arg.postfix = << "-", "b" >>
  /\ call.res = << "f", "_", "a", "-", "b", ".", "t" >>

\* the integer build_new_name computes for the call
Computed(a) == RoundHalfEven(a.index_value * a.index_mul + 2 * a.index_offset)

\* the decimal digits of the absolute value
Digits(v) == DecDigits(IF v < 0 THEN -v ELSE v)

\* the call returned the name built around the number text num
ReturnedWith(num) ==
  call.res = Assembled(call.arg.prefix, num, call.arg.postfix, call.arg.suffix)

\* C15 as claimed: the number is rendered with its sign, and the digits
\* alone are zero-padded to pad_width, never truncated.
C15_DigitsPaddedToWidth ==
  (call.fn = "build_new_name" /\ call.done) =>
    LET v == Computed(call.arg)
        fill == call.arg.pad_width - Len(Digits(v))
    IN ReturnedWith((IF v < 0 THEN << "-" >> ELSE << >>)
                    \o Repeat("0", fill) \o Digits(v))

\* C15 amended: the number is rendered as the sign (for a negative value),
\* zeros, and the digits, never truncated; the zeros fill the rendering, sign
\* included, to pad_width characters.
C15_SignCountsInWidth ==
  (call.fn = "build_new_name" /\ call.done) =>
    LET v == Computed(call.arg)
        sign == IF v < 0 THEN << "-" >> ELSE << >>
        fill == call.arg.pad_width - Len(sign) - Len(Digits(v))
    IN ReturnedWith(sign \o Repeat("0", fill) \o Digits(v))

\* -1 with pad_width 4 was rendered as -001
C15_Witness ==
  /\ call.fn = "build_new_name" /\ call.done
  /\ Computed(call.arg) = -1 /\ call.arg.pad_width = 4
  /\ call.arg.prefix = << >>
  /\ call.res = << "-", "0", "0", "1" >> \o Ext

\* twice the value index * multiplier + offset of the call (the multiplier
\* is counted in halves)
TwiceValue(a) == a.index_value * a.index_mul + 2 * a.index_offset

\* r is the integer nearest to twice / 2, the even one of the two nearest
\* when twice / 2 lies halfway between them
NearestTiesEven(r, twice) ==
  LET d == 2 * r - twice
  IN /\ d \in {-1, 0, 1}
     /\ d # 0 => r % 2 = 0

\* the number in the returned name is r
ReturnedNumber(r) ==
  ReturnedWith(FormatInt(r, IF call.arg.pad_width < 0 THEN 0 ELSE call.arg.pad_width))

\* C16: the number put in the name is index * multiplier + offset rounded to
\* the nearest integer, ties to the even one: 0.5 -> 0, 1.5 -> 2, 2.5 -> 2,
\* -0.5 -> 0.
C16_RoundsHalfToEven ==
  (call.fn = "build_new_name" /\ call.done) =>
    /\ \E r \in (-200)..200 :
         NearestTiesEven(r, TwiceValue(call.arg)) /\ ReturnedNumber(r)
    /\ TwiceValue(call.arg) = 1 => ReturnedNumber(0)
    /\ TwiceValue(call.arg) = 3 => ReturnedNumber(2)
    /\ TwiceValue(call.arg) = 5 => ReturnedNumber(2)
    /\ TwiceValue(call.arg) = -1 => ReturnedNumber(0)

\* 1 * 2.5 + 0 was rendered as 2
C16_Witness ==
  /\ call.fn = "build_new_name" /\ call.done
  /\ call.arg.index_value = 1 /\ call.arg.index_mul = 5
  /\ call.arg.index_offset = 0 /\ call.arg.pad_width = 0
  /\ call.arg.prefix = << >>
  /\ call.res = << "2" >> \o Ext

\* the entry the last ensure_write call was made for
LastEntry == pairs[Len(outcomes)]

\* the new name of the entry of the last call
LastNewName == NewName(params, LastEntry[1], LastEntry[2])

\* the directories between the scan root and the file p
DirsBelowRoot(p) == SubSeq(p.parts, 1, Len(p.parts) - 1)

\* C17: with a destination root and preserve_tree the destination of every
\* processed file is dest_root / (the directories the file is in below the
\* scan root) / new_name, and a file written by the run is there.
C17_MirroredDestination ==
  (last.called /\ params.preserve_tree /\ params.dest_root = DestDir) =>
    /\ last.src = LastEntry[1]
    /\ last.src.root = "S"
    /\ last.dst = Path("D", DirsBelowRoot(last.src) \o << LastNewName >>)
    /\ (~last.raised /\ ~last.dry_run) => IsFile(fs, last.dst)

\* the file two directories below the scan root was written at the same
\* two directories below the destination root
C17_Witness ==
  /\ last.called /\ params.preserve_tree /\ params.dest_root = DestDir
  /\ ~last.raised /\ ~last.dry_run
  /\ last.src = Path("S", << SubA, SubB, N2 >>)
  /\ Parent(last.dst) = Path("D", << SubA, SubB >>)
  /\ IsDir(fs, Path("D", << SubA, SubB >>))
  /\ ~Exists(last.before, Path("D", << SubA >>))

\* C18: with a destination root and preserve_tree off the destination of
\* every processed file is dest_root / new_name.
C18_FlattenedDestination ==
  (last.called /\ ~params.preserve_tree /\ params.dest_root = DestDir) =>
    last.dst = Path("D", << LastNewName >>)

\* what the run does with a destination root and preserve_tree off: the
\* destination is beside the source file
C18_DestinationBesideSource ==
  (last.called /\ ~params.preserve_tree /\ params.dest_root = DestDir) =>
    last.dst = Path("S", DirsBelowRoot(last.src) \o << LastNewName >>)

\* some part of rel_parent holds a character of INVALID_FILENAME_CHARS
HasInvalidChar(rel_parent) ==
  \E i \in 1..Len(rel_parent) : \E j \in 1..Len(rel_parent[i]) :
    rel_parent[i][j] \in INVALID_FILENAME_CHARS

\* some part of rel_parent is empty or whitespace-only
HasBlankPart(rel_parent) ==
  \E i \in 1..Len(rel_parent) : Len(Strip(rel_parent[i])) = 0

\* the assembled name: prefix_new_name, new_name alone without a prefix
AssembledName(rel_parent, new_name) ==
  LET prefix == build_parent_folder_prefix(rel_parent)
  IN IF prefix = << >> THEN new_name ELSE prefix \o << "_" >> \o new_name

\* the call returned a failure with a reason exactly in the three cases
FailsExactlyWhenInvalid ==
  LET a == call.arg
      invalid == \/ HasInvalidChar(a.rel_parent)
                 \/ HasBlankPart(a.rel_parent)
                 \/ Len(AssembledName(a.rel_parent, a.new_name)) > 255
  IN /\ call.res.ok <=> ~invalid
     /\ call.res.ok <=> call.res.reason = ""

\* C19: validate_parent_folder_prefix returns a failure with a reason
\* exactly when a part of rel_parent holds an invalid character, or a part is
\* empty or whitespace-only, or the assembled name is longer than 255
\* characters; otherwise success with an empty reason.
C19_ValidatesExactly ==
  (call.fn = "validate_parent_folder_prefix" /\ call.done)
    => FailsExactlyWhenInvalid

\* C19 for the relative parents that have a part that is not whitespace-only,
\* or no part at all
C19_ValidatesWithNonBlankPart ==
  (/\ call.fn = "validate_parent_folder_prefix" /\ call.done
   /\ \/ call.arg.rel_parent = << >>
      \/ \E i \in 1..Len(call.arg.rel_parent) :
           Len(Strip(call.arg.rel_parent[i])) > 0)
    => FailsExactlyWhenInvalid

\* C20: when the scan root does not exist or is not a directory, run() emits
\* failed once and nothing else, scans nothing, calls ensure_write for
\* nothing and leaves the filesystem as it is; the GUI's validation does not
\* pass, so that it constructs no worker.
C20_InvalidRootBlocksRun ==
  ~IsDir(fs0, params.folder) =>
    /\ ~Validate(fs0, params)
    /\ pc # "idle" =>
         /\ pc = "done"
         /\ Len(events) = 1 /\ events[1].ev = "failed"
         /\ paths = << >> /\ allPairs = << >> /\ pairs = << >>
         /\ outcomes = << >> /\ ~last.called
         /\ fs = fs0

\* run() ended on a scan root that is a regular file
C20_Witness ==
  /\ pc = "done" /\ IsFile(fs0, params.folder)
  /\ EndOf(events) = "failed"

\* the log lines that reached the shell through progressText
ShownLines == IF shown = << >> THEN << >> ELSE shown[1]

\* the action a log line names for an ensure_write call of the given class
ActionOf(class) ==
  IF class \in {"skip", "overwrite"} THEN class
  ELSE IF params.move THEN "move" ELSE "copy"

\* line i is the line of the i-th processed entry: its action, the directory
\* relative to the scan root and the file name
LineOfEntry(i) ==
  /\ ShownLines[i].action = ActionOf(outcomes[i].class)
  /\ ShownLines[i].src_name = PathName(pairs[i][1])
  /\ ShownLines[i].rel_dir = RelStr(DirsBelowRoot(pairs[i][1]))

\* C21: when the run has ended, one log line per processed file, naming its
\* action and its path relative to the scan root, has reached the shell, for
\* every setting of verbose and dry_run, also when the run failed.
C21_LogLinePerFile ==
  pc = "done" =>
    /\ Len(ShownLines) >= Len(Returned)
    /\ \A i \in 1..Len(Returned) : LineOfEntry(i)

\* C21 for the runs with verbose or dry_run that finished
C21_LogLinePerFileOfFinishedLoggedRun ==
  (pc = "done" /\ EndOf(events) = "finished"
     /\ (params.verbose \/ params.dry_run)) =>
    /\ Len(ShownLines) = Len(outcomes)
    /\ \A i \in 1..Len(outcomes) : LineOfEntry(i)

\* the worker threads of window i that have started and whose terminal
\* signal has not been handled
LiveWorkers(i) == open_windows[i].executing + Len(open_windows[i].emitted)

RECURSIVE LiveUpTo(_)
LiveUpTo(n) == IF n = 0 THEN 0 ELSE LiveWorkers(n) + LiveUpTo(n - 1)

\* C22 (as stated): at most one worker is live in the whole application,
\* whatever the user clicks (run, preview, a tool button of the home screen).
C22_OneWorkerInApplication == LiveUpTo(Len(open_windows)) <= 1

\* C22 (amended): at most one worker is live per tool window, and while it is
\* live the controls of that window are disabled; windows opened from the
\* home screen are independent of each other.
C22_OneWorkerPerWindow ==
  \A i \in 1..Len(open_windows) :
    /\ LiveWorkers(i) <= 1
    /\ LiveWorkers(i) = 1 => ~ControlsEnabled(open_windows[i])

C22_Witness ==
  \E i, j \in 1..Len(open_windows) :
    /\ i # j
    /\ open_windows[i].tool = open_windows[j].tool
    /\ LiveWorkers(i) = 1 /\ LiveWorkers(j) = 1

\* the call of create_folders, directly or from the worker, has returned
FoldersReturned == call.fn \in { "create_folders", "FolderCreatorWorker.run" } /\ call.done /\ ~call.res.raised

\* the path of the i-th folder of the call (i from 0)
ExpectedFolder(i) ==
  Child(call.arg.parent_path,
        call.arg.prefix \o << "_" >>
        \o FormatIntDigits(call.arg.start_index + i, call.arg.padding)
        \o << "_" >> \o call.arg.suffix)

\* C23: after create_folders returns, each of the count paths
\* parent/prefix_<start_index+i padded>_suffix is a directory, and the
\* returned list has exactly these paths in increasing index order.
C23_EveryFolderIsDirectory ==
  FoldersReturned =>
    /\ Len(call.res.out) = call.arg.count
    /\ \A i \in 0..(call.arg.count - 1) :
         /\ call.res.out[i + 1] = ExpectedFolder(i)
         /\ IsDir(fs, ExpectedFolder(i))

\* C23 (what the code does): each of the count paths exists and is listed
\* in order; a path that was a regular file before the call still is one.
C23_EveryPathExists ==
  FoldersReturned =>
    /\ Len(call.res.out) = call.arg.count
    /\ Exists(fs, call.arg.parent_path)
    /\ \A i \in 0..(call.arg.count - 1) :
         /\ call.res.out[i + 1] = ExpectedFolder(i)
         /\ Exists(fs, ExpectedFolder(i))
         /\ IsDir(fs, ExpectedFolder(i)) \/ IsFile(fs0, ExpectedFolder(i))

\* the directories the call made under the parent
MadeByCall ==
  { p \in DOMAIN fs : p \notin DOMAIN fs0 /\ Parent(p) = call.arg.parent_path
                      /\ p # call.arg.parent_path }

\* C24: the returned list holds the folders the call created, and the
\* worker's finished count and "Created:" lines count these folders only.
C24_ReportsCreatedOnly ==
  FoldersReturned =>
    /\ { call.res.out[i] : i \in 1..Len(call.res.out) } = MadeByCall
    /\ call.fn = "FolderCreatorWorker.run" =>
         /\ events[Len(events)] = Ev("finished", Cardinality(MadeByCall), 0, "")
         /\ Len(SelectSeq(shown, LAMBDA t : t.text = "Created")) = Cardinality(MadeByCall)

\* C24 (what the code does): the list, the count and the lines cover every
\* requested path, those present before the call included.
C24_ReportsEveryRequested ==
  FoldersReturned =>
    /\ MadeByCall \subseteq { call.res.out[i] : i \in 1..Len(call.res.out) }
    /\ call.fn = "FolderCreatorWorker.run" =>
         /\ events[Len(events)] = Ev("finished", call.arg.count, 0, "")
         /\ Len(SelectSeq(shown, LAMBDA t : t.text = "Created")) = call.arg.count

\* a regular file with the given content is at p
HoldsContent(f, p, data) == IsFile(f, p) /\ f[p].data = data

\* C25: ensure_write never destroys its own source: the content of src is at
\* src or at dst after the call, whether the call returns or raises, dst
\* equal to src with overwrite = true included.
C25_SourceContentSurvives ==
  (last.called /\ IsFile(last.before, last.src)) =>
    \E p \in { last.src, last.dst, Child(last.dst, PathName(last.src)) } :
      HoldsContent(fs, p, last.before[last.src].data)

\* C25 (what the code does): the content survives every call whose dst is
\* not the source itself.
C25_OtherSourceContentSurvives ==
  (last.called /\ IsFile(last.before, last.src) /\ last.dst # last.src) =>
    \E p \in { last.src, last.dst, Child(last.dst, PathName(last.src)) } :
      HoldsContent(fs, p, last.before[last.src].data)

\* source and computed destination of the i-th entry of the run
SrcOf(i) == pairs[i][1]
DstOf(i) == DestOf(params, pairs[i][1], NewName(params, pairs[i][1], pairs[i][2]))

DistinctDestinations ==
  \A i, j \in 1..Len(pairs) : i # j => DstOf(i) # DstOf(j)

RegularFiles(f) == { p \in DOMAIN f : IsFile(f, p) }

\* the run has ended with the finished signal
Finished == pc = "done" /\ EndOf(events) = "finished"

\* C26: an in-place run with move and overwrite on and pairwise distinct
\* destinations deletes or replaces no source before it is processed: after
\* the run the number of files is unchanged and the content of each source
\* is at its own destination.
C26_NoSourceLostInPlace ==
  (Finished /\ params.move /\ params.overwrite /\ ~params.dry_run
     /\ ~params.preserve_tree /\ DistinctDestinations) =>
    /\ Cardinality(RegularFiles(fs)) = Cardinality(RegularFiles(fs0))
    /\ \A i \in 1..Len(pairs) :
         \E p \in { DstOf(i), Child(DstOf(i), PathName(SrcOf(i))) } :
           HoldsContent(fs, p, fs0[SrcOf(i)].data)

\* the action a dry run with the parameters of the current run prints for
\* the i-th entry: a dry run changes nothing, so it classifies every entry
\* on the directory state the run started from
DryRunActionOf(i) ==
  LogLines(fs0, [params EXCEPT !.dry_run = TRUE], SrcOf(i), DstOf(i),
           NewName(params, SrcOf(i), pairs[i][2]))[1].action

\* the lines of a finished dry run are the actions DryRunActionOf gives
DryRunClassifiesOnStart ==
  (Finished /\ params.dry_run) =>
    /\ Len(ShownLines) = Len(pairs)
    /\ \A i \in 1..Len(pairs) : ShownLines[i].action = DryRunActionOf(i)

\* the action of the real run on the i-th entry is the dry run's
Predicted(i) ==
  outcomes[i].class # "raise" => ActionOf(outcomes[i].class) = DryRunActionOf(i)

\* C27 (as stated): the action the dry run classifies for each file is the
\* action the real run takes on it, in-place runs whose earlier moves create
\* or remove the destinations of later files included.
C27_DryRunPredictsRealRun ==
  ~params.dry_run => \A i \in 1..Len(outcomes) : Predicted(i)

\* no destination of the run is the source or the destination of another
\* entry of the run
IndependentEntries ==
  \A i, j \in 1..Len(pairs) :
    i # j => DstOf(i) # SrcOf(j) /\ DstOf(i) # DstOf(j)

\* C27 (what the code does): when no entry's destination is the source or
\* destination of another entry, the action the dry run classifies for each
\* file is the action the real run takes on every file its ensure_write call
\* returns for.
C27_DryRunPredictsIndependentEntries ==
  (~params.dry_run /\ IndependentEntries) =>
    \A i \in 1..Len(outcomes) : Predicted(i)

\* the two entries have been named
NamedTwo == call.fn = "build_new_name of two entries" /\ call.done

\* the magnitude of the multiplier, in halves
MulMagnitude == IF call.arg.index_mul < 0 THEN -call.arg.index_mul ELSE call.arg.index_mul

\* C28 (as stated): with a non-zero multiplier two files of one folder with
\* the same extension and different indexes get different new names,
\* multipliers of magnitude below 1 such as 0.5 included.
C28_DistinctNamesForNonZeroMultiplier ==
  (NamedTwo /\ call.arg.index_mul # 0) => call.res[1] # call.res[2]

\* C28 (amended): with a multiplier of magnitude at least 1 two files of one
\* folder with the same extension and different indexes get different new
\* names.
C28_DistinctNamesForMultiplierAtLeastOne ==
  (NamedTwo /\ MulMagnitude >= 2) => call.res[1] # call.res[2]

\* a multiplier of 1.5 and two values that are both rounded from a tie
C28_Witness ==
  /\ NamedTwo /\ MulMagnitude = 3
  /\ (call.arg.first * call.arg.index_mul) % 2 = 1
  /\ (call.arg.second * call.arg.index_mul) % 2 = 1
  /\ call.res[1] # call.res[2]

\* the pairs of a sequence of pairs, as a set
PairSet(prs) == { prs[k] : k \in 1..Len(prs) }

\* the window has scanned and previewed the list the engine scanned
UiShown == call.fn = "RenamerWindow" /\ call.res.scanned /\ call.res.previewed

\* the window shows the pairs and the selection of the engine
UiAgrees ==
  /\ PairSet(call.res.tree) = PairSet(allPairs)
  /\ PairSet(call.res.preview) = PairSet(allPairs)
  /\ (params.apply_selection /\ params.sel_division > 0) =>
       call.res.highlighted = PathsOf(pairs)

\* C29: for the same file list, index base and reset_per_folder setting the
\* pairs of the scan tree and of the preview equal the pairs the run
\* computes, and the highlighted files are the files the run processes, in
\* reset and non-reset mode alike.
C29_GuiPairsEqualEnginePairs == UiShown => UiAgrees

\* C29 (what the code does): the window agrees with the engine in reset
\* mode.
C29_GuiPairsEqualEnginePairsInResetMode ==
  (UiShown /\ params.reset_per_folder) => UiAgrees

\* window i has its controls disabled
Busy(i) == i <= Len(open_windows) /\ open_windows[i].running

\* C30: once _start_worker of a renamer window has disabled the controls, a
\* worker is constructed and started, and the controls are eventually
\* enabled again by _on_finished or _on_failed.
\* window i has its controls enabled again and its worker cleaned up
Released(i) ==
  /\ i <= Len(open_windows)
  /\ ~open_windows[i].running /\ open_windows[i].worker = "none"

C30_BusyStateTerminates ==
  \A i \in 1..MaxWindows :
    (Busy(i) /\ open_windows[i].tool = "renamer") ~> Released(i)

\* C30 (safety part): a renamer window is never left with its controls
\* disabled and no worker running.
C30_NeverBusyWithoutWorker ==
  \A i \in 1..Len(open_windows) :
    (open_windows[i].tool = "renamer" /\ open_windows[i].running)
      => LiveWorkers(i) > 0

====
